---- MODULE Spec2Model ----
(***************************************************************************)
(* A model of the configuration merge-and-resolve engine of cylc-rose      *)
(* (src/cylc/rose/utilities.py).                                           *)
(*                                                                         *)
(* Strings are sequences of lexemes: a lexeme is one character of          *)
(* punctuation (" ", "[", "]", "!", "=") or one unbreakable word.  The     *)
(* string 'a b a' is <<"a", " ", "b", " ", "a">>.                          *)
(*                                                                         *)
(* A ConfigNode tree is a function from key paths (<<"opts">>, <<"env">>,  *)
(* <<"env", "FOO">>) to settings [value, state, comments, sect]; this is   *)
(* the view ConfigNode.walk() gives of a tree, the one the code's merge    *)
(* works on.                                                               *)
(***************************************************************************)
EXTENDS Integers, Sequences, FiniteSets, TLC

VARIABLES
    pc,         \* position of the call under study: "idle", "call" or "done"
    args,       \* the arguments of the call
    ret,        \* what the call returned or raised: [exc, value]
    record,     \* <rundir>/opt/rose-suite-cylc-install.conf: NoFile or a file
    roseConf,   \* <rundir>/rose-suite.conf: NoFile or a file
    config_tree,    \* the configuration tree handed to process_config
    os_environ,     \* the environ mapping handed to process_config
    prev,       \* what the call found: the files, or the tree and environ;
                \* the local variables of a call that is under way
    lexer       \* the module jinja2.lexer: [integer_re, wrap]

vars == <<pc, args, ret, record, roseConf, config_tree, os_environ, prev, lexer>>

(***************************************************************************)
(* Bounds of the model.                                                    *)
(***************************************************************************)
MaxOptLen == 5      \* length of the strings given to simplify_opts_strings
MaxPartLen == 2     \* length of each source given to merge_opts
MaxListLen == 2     \* length of a list of CLI opt-conf-keys
MaxMergeLen == 1    \* length of the opts values of the install records merged

(***************************************************************************)
(* Program constants (utilities.py:50-55).                                 *)
(***************************************************************************)
ROSE_SUITE_OPT_CONF_KEYS == "ROSE_SUITE_OPT_CONF_KEYS"
SECTIONS == {"jinja2:suite.rc", "empy:suite.rc", "template variables"}
ROSE_ORIG_HOST_INSTALLED_OVERRIDE_STRING == " ROSE_ORIG_HOST set by cylc install."

STATE_NORMAL == ""
STATE_USER_IGNORED == "!"
STATE_SYST_IGNORED == "!!"

(***************************************************************************)
(* Strings.                                                                *)
(***************************************************************************)
OptChars == {"a", "b", " "}

StrsUpTo(S, n) == UNION {[1..k -> S] : k \in 0..n}

Reverse(s) == [i \in 1..Len(s) |-> s[Len(s) + 1 - i]]

SeqToSet(s) == {s[i] : i \in 1..Len(s)}

\* str.split(): the maximal runs of non-whitespace lexemes, in order.
RECURSIVE split_from(_, _, _, _)
split_from(s, i, cur, acc) ==
    IF i > Len(s)
    THEN IF cur = <<>> THEN acc ELSE Append(acc, cur)
    ELSE IF s[i] = " "
         THEN split_from(s, i + 1, <<>>, IF cur = <<>> THEN acc ELSE Append(acc, cur))
         ELSE split_from(s, i + 1, Append(cur, s[i]), acc)

split(s) == split_from(s, 1, <<>>, <<>>)

\* sep.join(parts)
RECURSIVE join(_, _)
join(sep, parts) ==
    IF parts = <<>> THEN <<>>
    ELSE IF Len(parts) = 1 THEN parts[1]
    ELSE parts[1] \o sep \o join(sep, Tail(parts))

(***************************************************************************)
(* simplify_opts_strings (utilities.py:628-662).                           *)
(***************************************************************************)
\* The loop of lines 657-660 over an already reversed token list.
RECURSIVE seen_once(_, _)
seen_once(items, seen) ==
    IF items = <<>> THEN seen
    ELSE seen_once(Tail(items),
                   IF Head(items) \in SeqToSet(seen) THEN seen
                   ELSE Append(seen, Head(items)))

\* A slip: the first occurrence of a token is kept, not the last.
simplify_opts_strings_first_wins(opts) ==
    join(<<" ">>, seen_once(split(opts), <<>>))

simplify_opts_strings(opts) ==
    join(<<" ">>, Reverse(seen_once(Reverse(split(opts)), <<>>)))

(***************************************************************************)
(* ConfigNode trees (metomi.rose.config, the library the code builds on).  *)
(***************************************************************************)
\* A file that is not there; dump (below) makes one that is.
NoFile == [exists |-> FALSE, comments |-> <<>>, tree |-> << >>]

\* An optional argument: None or Some(x).
None == <<>>
Some(x) == <<x>>

EmptyNode == << >>

Leaf(value, state, comments) ==
    [value |-> value, state |-> state, comments |-> comments, sect |-> FALSE]

Section(state, comments) ==
    [value |-> <<>>, state |-> state, comments |-> comments, sect |-> TRUE]

\* node.value.keys(); "key in node"
TopKeys(node) == {p[1] : p \in DOMAIN node}

\* the keys of node[section]
KeysOf(node, section) ==
    {p[2] : p \in {q \in DOMAIN node : Len(q) = 2 /\ q[1] = section}}

\* The paths at and below the top-level key.
PathsOf(node, key) == {p \in DOMAIN node : p[1] = key}

Restrict(f, S) == [x \in S |-> f[x]]

\* bool(node.value.get(key, '')): the key is there and its node is not empty.
Truthy(node, key) ==
    /\ <<key>> \in DOMAIN node
    /\ IF node[<<key>>].sect THEN KeysOf(node, key) # {}
       ELSE node[<<key>>].value # <<>>

\* ConfigNode.set(keys, value, state, comments): null keys are skipped, a
\* missing parent section is created, a value of None makes an empty section,
\* a state or comments of None leaves what the node has.
node_set(node, keys, value, state, comments) ==
    LET ks == SelectSeq(keys, LAMBDA k : k # "")
        withParent ==
            IF Len(ks) = 2 /\ <<ks[1]>> \notin DOMAIN node
            THEN node @@ (<<ks[1]>> :> Section(STATE_NORMAL, <<>>))
            ELSE node
        had == ks \in DOMAIN withParent
        st == IF state # None THEN state[1]
              ELSE IF had THEN withParent[ks].state ELSE STATE_NORMAL
        co == IF comments # None THEN comments[1]
              ELSE IF had THEN withParent[ks].comments ELSE <<>>
    IN  IF ks = <<>> THEN node
        ELSE IF value = None
        THEN (ks :> Section(st, co))
             @@ Restrict(withParent, DOMAIN withParent \ PathsOf(withParent, ks[1]))
        ELSE (ks :> Leaf(value[1], st, co)) @@ withParent

\* ConfigNode.unset(keys)
node_unset(node, keys) ==
    Restrict(node, {p \in DOMAIN node :
                       ~(Len(p) >= Len(keys) /\ SubSeq(p, 1, Len(keys)) = keys)})

(***************************************************************************)
(* identify_templating_section and id_templating_section                   *)
(* (utilities.py:212-245).  A call returns [exc, value]: the exception it  *)
(* raised ("" for none) and its value.                                     *)
(***************************************************************************)
NoExc == ""
Returns(v) == [exc |-> NoExc, value |-> v]
Raises(e) == [exc |-> e, value |-> ""]

\* "word in section" for the section names of the model
Contains(section, word) ==
    <<section, word>> \in {<<"jinja2:suite.rc", "jinja2">>, <<"empy:suite.rc", "empy">>}

\* A slip: an empy section is not recognised.
id_templating_section_no_empy(section) ==
    IF section # "" /\ Contains(section, "jinja2") THEN "jinja2:suite.rc"
    ELSE "template variables"

id_templating_section(section) ==
    IF section # "" /\ Contains(section, "jinja2") THEN "jinja2:suite.rc"
    ELSE IF section # "" /\ Contains(section, "empy") THEN "empy:suite.rc"
    ELSE "template variables"

identify_templating_section(config_node) ==
    LET defined_sections == SECTIONS \cap TopKeys(config_node)
    IN  IF Cardinality(defined_sections) > 1
        THEN Raises("MultipleTemplatingEnginesError")
        ELSE IF defined_sections # {}
        THEN Returns(id_templating_section(CHOOSE x \in defined_sections : TRUE))
        ELSE Returns(id_templating_section(""))

(***************************************************************************)
(* merge_rose_cylc_suite_install_conf (utilities.py:322-365).              *)
(***************************************************************************)
\* itertools.permutations(order, 2), where order is the iteration order of
\* the set SECTIONS (which Python's string hashing decides per process).
Orders(S) == {o \in [1..Cardinality(S) -> S] : \A i, j \in DOMAIN o : o[i] = o[j] => i = j}

permutations2(order) ==
    LET n == Len(order)
        ij == [k \in 1..(n * (n - 1)) |->
                 LET i == ((k - 1) \div (n - 1)) + 1
                     r == ((k - 1) % (n - 1)) + 1
                 IN  <<i, IF r < i THEN r ELSE r + 1>>]
    IN  [k \in DOMAIN ij |-> <<order[ij[k][1]], order[ij[k][2]]>>]

\* old.value[after] = old.value[before]; old.value.pop(before)
move_section(old, before, after) ==
    LET kept == Restrict(old, DOMAIN old \ (PathsOf(old, before) \cup PathsOf(old, after)))
        moved == [p \in {<<after>> \o Tail(q) : q \in PathsOf(old, before)} |->
                    old[<<before>> \o Tail(p)]]
    IN  moved @@ kept

\* A slip: the sections of old are left where they are.
migrate_sections_left(old, new, pairs) == old

\* A slip: only a legacy section is moved, and only to 'template variables'.
RECURSIVE migrate_sections_to_canonical(_, _, _)
migrate_sections_to_canonical(old, new, pairs) ==
    IF pairs = <<>> THEN old
    ELSE LET before == Head(pairs)[1]
             after == Head(pairs)[2]
         IN  migrate_sections_to_canonical(
                 IF /\ after = "template variables"
                    /\ Truthy(new, after) /\ Truthy(old, before)
                 THEN move_section(old, before, after) ELSE old,
                 new, Tail(pairs))

\* lines 345-350
RECURSIVE migrate_sections(_, _, _)
migrate_sections(old, new, pairs) ==
    IF pairs = <<>> THEN old
    ELSE LET before == Head(pairs)[1]
             after == Head(pairs)[2]
         IN  migrate_sections(
                 IF Truthy(new, after) /\ Truthy(old, before)
                 THEN move_section(old, before, after) ELSE old,
                 new, Tail(pairs))

\* A slip: new's tokens are put before old's.
merge_opts_entry_new_first(old, new) ==
    IF <<"opts">> \in DOMAIN old /\ <<"opts">> \in DOMAIN new
    THEN [new EXCEPT ![<<"opts">>].value =
            simplify_opts_strings(new[<<"opts">>].value \o <<" ">> \o old[<<"opts">>].value)]
    ELSE IF <<"opts">> \in DOMAIN old
    THEN node_set(new, <<"opts">>, Some(old[<<"opts">>].value), None, None)
    ELSE new

\* lines 353-357: new, with its opts merged with old's
merge_opts_entry(old, new) ==
    IF <<"opts">> \in DOMAIN old /\ <<"opts">> \in DOMAIN new
    THEN [new EXCEPT ![<<"opts">>].value =
            simplify_opts_strings(old[<<"opts">>].value \o <<" ">> \o new[<<"opts">>].value)]
    ELSE IF <<"opts">> \in DOMAIN old
    THEN node_set(new, <<"opts">>, Some(old[<<"opts">>].value), None, None)
    ELSE new

\* ConfigNodeDiff.set_from_configs(old, new); delete_removed(): the paths
\* added and modified (lines 360-362)
diff_added(old, new) == DOMAIN new \ DOMAIN old
diff_modified(old, new) == {p \in DOMAIN new \cap DOMAIN old : old[p] # new[p]}

\* A slip: the removed entries of the diff are applied too (no delete_removed).
add_diff_with_removed(old, new) ==
    [p \in DOMAIN new |-> new[p]]

\* old.add(diff) (line 363): set() for each added path and then for each
\* modified path, a section before its keys; setting a section empties it.
add_diff(old, new) ==
    LET added == diff_added(old, new)
        modified == diff_modified(old, new)
        n1 == [p \in DOMAIN old \cup added |-> IF p \in added THEN new[p] ELSE old[p]]
        wiped == {p \in DOMAIN n1 : Len(p) = 2 /\ <<p[1]>> \in modified /\ new[<<p[1]>>].sect}
        n2 == Restrict(n1, DOMAIN n1 \ wiped)
    IN  [p \in DOMAIN n2 \cup modified |-> IF p \in modified THEN new[p] ELSE n2[p]]

merge_rose_cylc_suite_install_conf(old, new, order) ==
    LET old1 == migrate_sections(old, new, permutations2(order))
        new1 == merge_opts_entry(old, new)
    IN  add_diff(old1, new1)

(***************************************************************************)
(* merge_opts (utilities.py:574-625).  opt_conf_keys is a string or a      *)
(* list: [isList, str, list].  environ is the process environment.         *)
(***************************************************************************)
OptConfKeysStr(s) == [isList |-> FALSE, str |-> s, list |-> <<>>]
OptConfKeysList(l) == [isList |-> TRUE, str |-> <<>>, list |-> l]

\* A slip: the environment's keys are put after the command line's.
merge_opts_env_last(config, opt_conf_keys, environ) ==
    LET declared == <<config[<<"opts">>].value>>
        fromEnv == IF ROSE_SUITE_OPT_CONF_KEYS \in DOMAIN environ
                   THEN <<environ[ROSE_SUITE_OPT_CONF_KEYS]>> ELSE <<>>
        fromStr == IF ~opt_conf_keys.isList /\ opt_conf_keys.str # <<>>
                   THEN <<opt_conf_keys.str>> ELSE <<>>
        fromList == IF opt_conf_keys.isList THEN opt_conf_keys.list ELSE <<>>
    IN  simplify_opts_strings(join(<<" ">>, declared \o fromStr \o fromList \o fromEnv))

merge_opts(config, opt_conf_keys, environ) ==
    LET declared == <<config[<<"opts">>].value>>
        fromEnv == IF ROSE_SUITE_OPT_CONF_KEYS \in DOMAIN environ
                   THEN <<environ[ROSE_SUITE_OPT_CONF_KEYS]>> ELSE <<>>
        fromStr == IF ~opt_conf_keys.isList /\ opt_conf_keys.str # <<>>
                   THEN <<opt_conf_keys.str>> ELSE <<>>
        fromList == IF opt_conf_keys.isList THEN opt_conf_keys.list ELSE <<>>
    IN  simplify_opts_strings(join(<<" ">>, declared \o fromEnv \o fromStr \o fromList))

(***************************************************************************)
(* parse_cli_defines (utilities.py:399-457).  The regular expressions are  *)
(* greedy: the section runs to the last "]" that still has an "=" after    *)
(* it, the state is the leading "!"s (two at most), the key runs to the    *)
(* last "=", and the white space after the "=" is not part of the value.   *)
(***************************************************************************)
Positions(s, ch) == {i \in 1..Len(s) : s[i] = ch}

Max(S) == CHOOSE x \in S : \A y \in S : y <= x

\* str.strip()
RECURSIVE lstrip(_)
lstrip(s) == IF s # <<>> /\ Head(s) = " " THEN lstrip(Tail(s)) ELSE s

strip(s) == Reverse(lstrip(Reverse(lstrip(s))))

\* the text of a string: its lexemes run together
RECURSIVE text(_)
text(s) == IF s = <<>> THEN "" ELSE Head(s) \o text(Tail(s))

\* the number of "!" that s starts with
RECURSIVE bangs(_)
bangs(s) == IF s # <<>> /\ Head(s) = "!" THEN 1 + bangs(Tail(s)) ELSE 0

\* (?P<state>!{0,2})(?P<key>.*)\s*=\s*(?P<value>.*) matched at the start of s
match_key_value(s) ==
    IF Positions(s, "=") = {} THEN [match |-> FALSE]
    ELSE LET eq == Max(Positions(s, "="))
             n == IF bangs(s) > 2 THEN 2 ELSE bangs(s)
         IN  [match |-> TRUE,
              state |-> text(SubSeq(s, 1, n)),
              key |-> SubSeq(s, n + 1, eq - 1),
              value |-> lstrip(SubSeq(s, eq + 1, Len(s)))]

\* ^\[(?P<section>.*)\] followed by the pattern above
match_section_key_value(s) ==
    LET closes == {i \in Positions(s, "]") : \E j \in Positions(s, "=") : i < j}
    IN  IF s = <<>> \/ Head(s) # "[" \/ closes = {} THEN [match |-> FALSE]
        ELSE LET close == Max(closes)
                 rest == match_key_value(SubSeq(s, close + 1, Len(s)))
             IN  [match |-> TRUE,
                  section |-> SubSeq(s, 2, close - 1),
                  state |-> rest.state, key |-> rest.key, value |-> rest.value]

NotParsed == [ok |-> FALSE, keys |-> <<>>, value |-> <<>>, state |-> ""]

\* lines 442-455: the keys, value and state of what matched
parsed_define(m1, m2) ==
    IF m1.match
    THEN [ok |-> TRUE, keys |-> <<text(strip(m1.section)), text(strip(m1.key))>>,
          value |-> m1.value, state |-> m1.state]
    ELSE IF m2.match /\ m2.state = ""
    THEN [ok |-> TRUE, keys |-> <<text(strip(m2.key))>>,
          value |-> m2.value, state |-> m2.state]
    ELSE NotParsed

parse_cli_defines(define) ==
    parsed_define(match_section_key_value(define), match_key_value(define))

(***************************************************************************)
(* rose_config_tree_loader (utilities.py:261-319).  conf is the tree of    *)
(* the source rose-suite.conf with its optional configurations; the        *)
(* library's loader puts the defines on top of it.                         *)
(***************************************************************************)
\* node.set(keys, value, state) for a define that parsed
set_define(node, d) ==
    IF d.ok THEN node_set(node, d.keys, Some(d.value), Some(d.state), None) ELSE node

RECURSIVE load_defines(_, _)
load_defines(node, defines) ==
    IF defines = <<>> THEN node
    ELSE load_defines(set_define(node, parse_cli_defines(Head(defines))), Tail(defines))

\* the defines '[section]var' of line 310
section_defines(section, template_vars) ==
    [i \in DOMAIN template_vars |-> <<"[", section, "]">> \o template_vars[i]]

\* lines 304-317: the tree loaded again, the template variables among the
\* defines
load_template_vars(conf, defines, rose_template_vars, template_section) ==
    IF template_section.exc # NoExc THEN template_section
    ELSE Returns(load_defines(conf,
             defines \o section_defines(template_section.value, rose_template_vars)))

rose_config_tree_loader(conf, defines, rose_template_vars) ==
    IF rose_template_vars = <<>> THEN Returns(load_defines(conf, defines))
    ELSE load_template_vars(conf, defines, rose_template_vars,
                            identify_templating_section(load_defines(conf, defines)))

\* A slip: the tree is loaded again whether there are template variables or not.
loader_calls_reloading(conf, defines, rose_template_vars) ==
    IF identify_templating_section(load_defines(conf, defines)).exc # NoExc
    THEN <<defines>>
    ELSE <<defines,
           defines \o section_defines(
               identify_templating_section(load_defines(conf, defines)).value,
               rose_template_vars)>>

\* lines 294-299 and 312-317: the defines of each ConfigTreeLoader().load of
\* the call, in order; the second load is not reached when
\* identify_templating_section raises
loader_calls(conf, defines, rose_template_vars) ==
    IF rose_template_vars = <<>>
       \/ identify_templating_section(load_defines(conf, defines)).exc # NoExc
    THEN <<defines>>
    ELSE <<defines,
           defines \o section_defines(
               identify_templating_section(load_defines(conf, defines)).value,
               rose_template_vars)>>

\* lines 290-292 and 310: redefinitions is opts.defines itself when that is
\* not empty, and the defines of the template variables are appended to it;
\* this is opts.defines after the call
loader_defines(conf, defines, rose_template_vars) ==
    IF defines = <<>> THEN defines
    ELSE loader_calls(conf, defines, rose_template_vars)[
             Len(loader_calls(conf, defines, rose_template_vars))]

(***************************************************************************)
(* load_rose_config (utilities.py:820-866) with invalid_defines_check      *)
(* (368-396) and deprecation_warnings (765-817).  opts is None or the      *)
(* options object.                                                         *)
(***************************************************************************)
\* lines 390-392: the defines that parse_cli_defines returns False for
invalid_defines(defines) == SelectSeq(defines, LAMBDA d : ~parse_cli_defines(d).ok)

\* lines 393-396: the error lists them
invalid_defines_check(defines) ==
    IF invalid_defines(defines) # <<>>
    THEN [exc |-> "InvalidDefineError", value |-> invalid_defines(defines)]
    ELSE Returns(None)

\* lines 777-810: the names that are deprecated in every mode, or outside
\* Cylc 7 compatibility mode only
DEPRECATIONS ==
    [name \in {"empy:suite.rc", "jinja2:suite.rc", "root-dir"} |->
        [ALL_MODES |-> name = "root-dir"]]

\* lines 811-817: the names a warning is logged for
deprecation_warnings(node, cylc7_back_compat) ==
    {name \in DOMAIN DEPRECATIONS :
        /\ DEPRECATIONS[name].ALL_MODES \/ ~cylc7_back_compat
        /\ name \in TopKeys(node)}

\* getattr(opts, "opt_conf_keys", None) as a condition
opt_conf_keys_given(opt_conf_keys) ==
    IF opt_conf_keys.isList THEN opt_conf_keys.list # <<>> ELSE opt_conf_keys.str # <<>>

\* A slip: the template variables are not among what is asked for.
options_given_but_template_vars(opts) ==
    /\ opts # None
    /\ \/ opt_conf_keys_given(opts.opt_conf_keys)
       \/ opts.defines # <<>>

\* lines 847-853
options_given(opts) ==
    /\ opts # None
    /\ \/ opt_conf_keys_given(opts.opt_conf_keys)
       \/ opts.defines # <<>>
       \/ opts.rose_template_vars # <<>>

\* lines 862-864: tree is what rose_config_tree_loader gave
loaded(tree, cylc7_back_compat) ==
    IF tree.exc # NoExc THEN [exc |-> tree.exc, value |-> None, log |-> {}]
    ELSE [exc |-> NoExc, value |-> tree.value,
          log |-> deprecation_warnings(tree.value, cylc7_back_compat)]

\* lines 858-864, for an options object
load_with_opts(srcConf, opts, cylc7_back_compat, checked) ==
    IF checked.exc # NoExc
    THEN [exc |-> checked.exc, value |-> checked.value, log |-> {}]
    ELSE loaded(rose_config_tree_loader(srcConf.tree, opts.defines,
                                        opts.rose_template_vars),
                cylc7_back_compat)

load_rose_config(srcConf, opts, cylc7_back_compat) ==
    IF ~srcConf.exists
    THEN IF options_given(opts)
         THEN [exc |-> "NotARoseSuiteException", value |-> None, log |-> {}]
         ELSE [exc |-> NoExc, value |-> EmptyNode, log |-> {}]
    ELSE IF opts = None
    THEN loaded(rose_config_tree_loader(srcConf.tree, <<>>, <<>>), cylc7_back_compat)
    ELSE load_with_opts(srcConf, opts, cylc7_back_compat,
                        invalid_defines_check(opts.defines))

(***************************************************************************)
(* get_cli_opts_node (utilities.py:460-539).  opts is the options object   *)
(* [opt_conf_keys, defines, rose_template_vars, clear_rose_install_opts];  *)
(* srcConf is the file <srcdir>/rose-suite.conf, or NoFile.                *)
(***************************************************************************)
host_define(host) == <<"[", "env", "]", "ROSE_ORIG_HOST", "=", host>>
host_template_var(host) == <<"ROSE_ORIG_HOST", "=", host>>

\* lines 505-509
RECURSIVE set_defines(_, _)
set_defines(newconfig, defines) ==
    IF defines = <<>> THEN newconfig
    ELSE set_defines(set_define(newconfig, parse_cli_defines(Head(defines))),
                     Tail(defines))

\* lines 528-532
set_template_var(newconfig, templating, m) ==
    node_set(newconfig, <<templating, text(m.key)>>, Some(m.value), Some(m.state), None)

\* lines 520-532
RECURSIVE set_template_vars(_, _, _)
set_template_vars(newconfig, templating, rose_template_vars) ==
    IF rose_template_vars = <<>> THEN newconfig
    ELSE set_template_vars(
             set_template_var(newconfig, templating,
                              match_key_value(Head(rose_template_vars))),
             templating, Tail(rose_template_vars))

\* A slip: the state of opts is left as it is.
set_opts_state_kept(newconfig, opt_conf_keys, environ) ==
    LET blank == [newconfig EXCEPT ![<<"opts">>].value = <<>>]
    IN  [blank EXCEPT ![<<"opts">>].value = merge_opts(blank, opt_conf_keys, environ)]

\* lines 534-537
set_opts(newconfig, opt_conf_keys, environ) ==
    LET blank == [newconfig EXCEPT ![<<"opts">>].value = <<>>]
    IN  [blank EXCEPT ![<<"opts">>].value = merge_opts(blank, opt_conf_keys, environ),
                      ![<<"opts">>].state = STATE_USER_IGNORED]

\* what opts.defines and opts.rose_template_vars are by line 517: a list
\* that was not empty is the very list appended to on lines 498-499
seen_by_loader(given, appended) == IF given = <<>> THEN <<>> ELSE appended

\* lines 511-518: tree is what rose_config_tree_loader gave
templating_of(srcConf, tree) ==
    IF ~srcConf.exists THEN Returns("template variables")
    ELSE IF tree.exc # NoExc THEN tree
    ELSE identify_templating_section(tree.value)

\* lines 501-539
new_config(opts, environ, defines, rose_template_vars, templating) ==
    IF templating.exc # NoExc THEN templating
    ELSE IF \E i \in DOMAIN rose_template_vars :
               ~match_key_value(rose_template_vars[i]).match
    THEN Raises("ValueError")
    ELSE Returns(set_opts(
             set_template_vars(
                 set_defines(node_set(EmptyNode, <<"opts">>, Some(<<>>), None, None),
                             defines),
                 templating.value, rose_template_vars),
             opts.opt_conf_keys, environ))

get_cli_opts_node(srcConf, opts, host, environ) ==
    LET defines == opts.defines \o <<host_define(host)>>
        rose_template_vars == opts.rose_template_vars \o <<host_template_var(host)>>
    IN  new_config(opts, environ, defines, rose_template_vars,
            templating_of(srcConf,
                rose_config_tree_loader(
                    srcConf.tree,
                    seen_by_loader(opts.defines, defines),
                    seen_by_loader(opts.rose_template_vars, rose_template_vars))))

\* lines 489-499 and 517: the options object after the call.  The lists
\* that lines 498-499 append to are the lists of opts when those are not
\* empty, and the loader appends to opts.defines in its turn.
opts_appended(opts, host) ==
    [opts EXCEPT
        !.defines = seen_by_loader(opts.defines, opts.defines \o <<host_define(host)>>),
        !.rose_template_vars =
            seen_by_loader(opts.rose_template_vars,
                           opts.rose_template_vars \o <<host_template_var(host)>>)]

opts_loaded(srcConf, opts) ==
    IF ~srcConf.exists THEN opts
    ELSE [opts EXCEPT !.defines = loader_defines(srcConf.tree, opts.defines,
                                                 opts.rose_template_vars)]

get_cli_opts_node_opts(srcConf, opts, host) ==
    opts_loaded(srcConf, opts_appended(opts, host))

(***************************************************************************)
(* add_cylc_install_to_rose_conf_node_opts (utilities.py:542-571).         *)
(***************************************************************************)
CYLC_INSTALL == <<"(cylc-install)">>

add_cylc_install_to_rose_conf_node_opts(rose_conf, cli_conf) ==
    LET cli_opts == IF <<"opts">> \in DOMAIN cli_conf
                    THEN cli_conf[<<"opts">>].value ELSE <<>>
        conf == IF <<"opts">> \in DOMAIN rose_conf THEN rose_conf
                ELSE node_set(rose_conf, <<"opts">>, Some(<<>>), None, None)
        \* (the source quotes the file name in backticks)
        comment == " Config Options '" \o text(cli_opts) \o " (cylc-install)' from CLI"
                   \o " appended to options already in rose-suite.conf."
        own == IF conf[<<"opts">>].state \notin {STATE_USER_IGNORED, STATE_SYST_IGNORED}
               THEN split(conf[<<"opts">>].value) ELSE <<>>
        opts == own \o split(cli_opts) \o <<CYLC_INSTALL>>
    IN  [conf EXCEPT ![<<"opts">>] = Leaf(join(<<" ">>, opts), STATE_NORMAL, <<comment>>)]

(***************************************************************************)
(* Files of the run directory.  ConfigDumper and ConfigLoader belong to    *)
(* the library: a file holds the tree's paths with their values, states    *)
(* and comments, and the comments of the root.                             *)
(***************************************************************************)
dump(tree, comments) == [exists |-> TRUE, comments |-> comments, tree |-> tree]
load(file) == file.tree

RECORD_COMMENT == " This file records CLI Options."

(***************************************************************************)
(* record_cylc_install_options (utilities.py:882-973).  The result is      *)
(* [exc, record, roseConf]: what it raised and the two files it leaves.    *)
(***************************************************************************)
HOST_SECTIONS == <<"env", "jinja2:suite.rc", "empy:suite.rc", "template variables">>

\* A slip: a ROSE_ORIG_HOST that is already in the record is left alone.
RECURSIVE set_rose_orig_host_if_missing(_, _, _)
set_rose_orig_host_if_missing(cli_config, sections, rose_orig_host) ==
    IF sections = <<>> THEN cli_config
    ELSE set_rose_orig_host_if_missing(
             IF /\ <<Head(sections)>> \in DOMAIN cli_config
                /\ <<Head(sections), "ROSE_ORIG_HOST">> \notin DOMAIN cli_config
             THEN [node_set(cli_config, <<Head(sections), "ROSE_ORIG_HOST">>,
                            Some(<<rose_orig_host>>), None, None)
                     EXCEPT ![<<Head(sections), "ROSE_ORIG_HOST">>].comments =
                                <<ROSE_ORIG_HOST_INSTALLED_OVERRIDE_STRING>>]
             ELSE cli_config,
             Tail(sections), rose_orig_host)

\* lines 949-958
RECURSIVE set_rose_orig_host(_, _, _)
set_rose_orig_host(cli_config, sections, rose_orig_host) ==
    IF sections = <<>> THEN cli_config
    ELSE set_rose_orig_host(
             IF <<Head(sections)>> \in DOMAIN cli_config
             THEN [node_set(cli_config, <<Head(sections), "ROSE_ORIG_HOST">>,
                            Some(<<rose_orig_host>>), None, None)
                     EXCEPT ![<<Head(sections), "ROSE_ORIG_HOST">>].comments =
                                <<ROSE_ORIG_HOST_INSTALLED_OVERRIDE_STRING>>]
             ELSE cli_config,
             Tail(sections), rose_orig_host)

\* A slip: the record found is not read.
merge_with_record_unread(files, cli_config, opts, order) == Returns(cli_config)

\* A slip: the clear flag is not looked at.
merge_with_record_ignoring_clear(files, cli_config, opts, order) ==
    IF ~files.record.exists THEN Returns(cli_config)
    ELSE LET oldconfig == load(files.record)
             checked == identify_templating_section(oldconfig)
         IN  IF checked.exc # NoExc THEN checked
             ELSE Returns(merge_rose_cylc_suite_install_conf(oldconfig, cli_config, order))

\* lines 936-947: the new config, merged with the record found unless the
\* record is to be cleared
merge_with_record(files, cli_config, opts, order) ==
    IF ~files.record.exists \/ opts.clear_rose_install_opts THEN Returns(cli_config)
    ELSE LET oldconfig == load(files.record)
             checked == identify_templating_section(oldconfig)
         IN  IF checked.exc # NoExc THEN checked
             ELSE Returns(merge_rose_cylc_suite_install_conf(oldconfig, cli_config, order))

Outcome(exc, rec, conf) == [exc |-> exc, record |-> rec, roseConf |-> conf]

\* lines 963-973: the installed rose-suite.conf, which touch() makes if it
\* is not there
installed_conf(files, conf_file, rose_suite_conf) ==
    IF identify_templating_section(rose_suite_conf).exc # NoExc
    THEN Outcome(identify_templating_section(rose_suite_conf).exc, conf_file,
                 IF files.roseConf.exists THEN files.roseConf
                 ELSE dump(EmptyNode, <<>>))
    ELSE Outcome(NoExc, conf_file, dump(rose_suite_conf, <<>>))

\* lines 960-968
record_dumped(files, cli_config) ==
    installed_conf(files, dump(cli_config, <<RECORD_COMMENT>>),
        add_cylc_install_to_rose_conf_node_opts(
            IF files.roseConf.exists THEN load(files.roseConf) ELSE EmptyNode,
            cli_config))

\* lines 949-958
record_merged(files, host, merged) ==
    IF merged.exc # NoExc THEN Outcome(merged.exc, files.record, files.roseConf)
    ELSE record_dumped(files, set_rose_orig_host(merged.value, HOST_SECTIONS, host))

\* lines 926-947: new is what get_cli_opts_node gave
record_new(files, opts, host, order, new) ==
    IF new.exc # NoExc THEN Outcome(new.exc, files.record, files.roseConf)
    ELSE IF identify_templating_section(new.value).exc # NoExc
    THEN Outcome(identify_templating_section(new.value).exc,
                 files.record, files.roseConf)
    ELSE record_merged(files, host, merge_with_record(files, new.value, opts, order))

record_cylc_install_options(srcConf, files, opts, host, environ, order) ==
    record_new(files, opts, host, order, get_cli_opts_node(srcConf, opts, host, environ))

(***************************************************************************)
(* copy_config_file (utilities.py:976-1001) and post_install               *)
(* (entry_points.py:61-77).                                                *)
(***************************************************************************)
Files(rec, conf) == [record |-> rec, roseConf |-> conf]

\* A slip: a rose-suite.conf that the run directory has is left as it is.
copy_config_file_once(srcConf, files) ==
    IF ~srcConf.exists \/ files.roseConf.exists THEN files
    ELSE Files(files.record, srcConf)

copy_config_file(srcConf, files) ==
    IF ~srcConf.exists THEN files
    ELSE Files(files.record, srcConf)

post_install(srcConf, files, opts, host, environ, order) ==
    IF ~srcConf.exists THEN Outcome(NoExc, files.record, files.roseConf)
    ELSE record_cylc_install_options(
             srcConf, copy_config_file(srcConf, files), opts, host, environ, order)

(***************************************************************************)
(* env_var_process (metomi.rose.env, the library): the text up to the      *)
(* first symbol $NAME or ${NAME}, half of the backslashes right before the *)
(* symbol, then the value of NAME in environ when the backslashes are even *)
(* in number and the symbol itself when they are odd; and so on for the    *)
(* text after the symbol.  What is substituted is not looked at again.  A  *)
(* value is a sequence of lexemes: a word, a backslash or a symbol.        *)
(***************************************************************************)
SymbolName ==
    ("$A" :> "A") @@ ("${A}" :> "A") @@ ("$X" :> "X") @@ ("$Y" :> "Y")

Symbols == DOMAIN SymbolName

BACKSLASH == "\\"

Min(S) == CHOOSE x \in S : \A y \in S : x <= y

symbol_positions(s) == {i \in 1..Len(s) : s[i] \in Symbols}

\* the number of backslashes right before position i
escapes(s, i) == Max({n \in 0..(i - 1) : \A k \in (i - n)..(i - 1) : s[k] = BACKSLASH})

backslashes(n) == [k \in 1..n |-> BACKSLASH]

RECURSIVE env_var_process(_, _)

\* one match: the symbol at position i with e backslashes before it
substituted(tail, environ, i, e) ==
    LET name == SymbolName[tail[i]]
        rest == env_var_process(SubSeq(tail, i + 1, Len(tail)), environ)
    IN  IF e % 2 = 0 /\ name \notin DOMAIN environ
        THEN [exc |-> "UnboundEnvironmentVariableError", value |-> <<name>>]
        ELSE IF rest.exc # NoExc THEN rest
        ELSE Returns(SubSeq(tail, 1, i - 1 - e) \o backslashes(e \div 2)
                     \o (IF e % 2 = 0 THEN environ[name] ELSE <<tail[i]>>)
                     \o rest.value)

env_var_process(tail, environ) ==
    IF symbol_positions(tail) = {} THEN Returns(tail)
    ELSE substituted(tail, environ, Min(symbol_positions(tail)),
                     escapes(tail, Min(symbol_positions(tail))))

(***************************************************************************)
(* Parser.literal_eval on the values of the model: a run of digits is an   *)
(* integer, a quoted word is a string, anything else is not a literal.     *)
(***************************************************************************)
Digits == {"1", "2"}

Quoted == ("'s'" :> "s")

IsLiteral(value) ==
    /\ value # <<>>
    /\ \/ \A i \in DOMAIN value : value[i] \in Digits
       \/ Len(value) = 1 /\ value[1] \in DOMAIN Quoted

literal_eval(value) ==
    IF Len(value) = 1 /\ value[1] \in DOMAIN Quoted
    THEN [type |-> "str", value |-> <<Quoted[value[1]]>>]
    ELSE [type |-> "int", value |-> value]

(***************************************************************************)
(* process_config (utilities.py:80-209).  The tree is node, the paths with *)
(* their settings, and order, the paths of the options in the order the    *)
(* dictionaries of the tree hold them: a new key goes last.  A call works  *)
(* on [node, order, environ, log, exc, detail]: the tree and the environ   *)
(* of the caller, which it changes in place, its warnings, and the error   *)
(* it raised.                                                              *)
(***************************************************************************)
SET_BY_CYLC == "set by Cylc"

\* metomi.rose.__version__
ROSE_VERSION == "2.3.0"

SPECIAL_VARIABLES == {"ROSE_ORIG_HOST", "ROSE_VERSION", "ROSE_SITE"}

\* config_node[section].set([var_name], replace_with)
set_var(st, section, var_name, value) ==
    [st EXCEPT
        !.node = node_set(st.node, <<section, var_name>>, Some(value), None, None),
        !.order = IF <<section, var_name>> \in DOMAIN st.node THEN st.order
                  ELSE Append(st.order, <<section, var_name>>)]

\* A slip: nothing is unset.
unset_var_kept(st, section, var_name) == st

\* config_node[section].unset([var_name])
unset_var(st, section, var_name) ==
    [st EXCEPT
        !.node = node_unset(st.node, <<section, var_name>>),
        !.order = SelectSeq(st.order, LAMBDA q : q # <<section, var_name>>)]

override_this_variable(node, section, variable) ==
    IF <<section, variable>> \notin DOMAIN node THEN FALSE
    ELSE \/ variable # "ROSE_ORIG_HOST"
         \/ ROSE_ORIG_HOST_INSTALLED_OVERRIDE_STRING
               \notin SeqToSet(node[<<section, variable>>].comments)

\* A slip: the comment is not looked at.
rose_orig_host_set_by_cylc_install_never(node, section, var) == FALSE

rose_orig_host_set_by_cylc_install(node, section, var) ==
    /\ <<section, var>> \in DOMAIN node
    /\ ROSE_ORIG_HOST_INSTALLED_OVERRIDE_STRING
          \in SeqToSet(node[<<section, var>>].comments)

\* lines 139-145
warn_override(st, section, var_name, replace_with) ==
    IF override_this_variable(st.node, section, var_name)
    THEN [st EXCEPT !.log = Append(st.log,
             [section |-> section, var_name |-> var_name,
              user_var |-> st.node[<<section, var_name>>].value,
              replace_with |-> replace_with])]
    ELSE st

\* lines 147-153
replace_variable(st, section, var_name, replace_with) ==
    IF replace_with = <<SET_BY_CYLC>> THEN unset_var(st, section, var_name)
    ELSE IF ~rose_orig_host_set_by_cylc_install(st.node, section, var_name)
    THEN set_var(st, section, var_name, replace_with)
    ELSE st

standard_variable(st, section, var_name, replace_with) ==
    replace_variable(warn_override(st, section, var_name, replace_with),
                     section, var_name, replace_with)

\* lines 134-153
standard_variables(st, section, rose_orig_host) ==
    standard_variable(
        standard_variable(
            standard_variable(st, section, "ROSE_ORIG_HOST", <<rose_orig_host>>),
            section, "ROSE_VERSION", <<ROSE_VERSION>>),
        section, "CYLC_VERSION", <<SET_BY_CYLC>>)

\* A slip: the value is not put into environ.
expanded_variable_unexported(st, section, key, r) ==
    IF r.exc # NoExc
    THEN [st EXCEPT !.exc = "ConfigProcessError",
                    !.detail = [keys |-> <<"env", key>>,
                                value |-> st.node[<<section, key>>].value,
                                exc |-> r.value]]
    ELSE [st EXCEPT !.node = [st.node EXCEPT ![<<section, key>>].value = r.value]]

\* lines 157-167, for one key: r is what env_var_process gave
expanded_variable(st, section, key, r) ==
    IF r.exc # NoExc
    THEN [st EXCEPT !.exc = "ConfigProcessError",
                    !.detail = [keys |-> <<"env", key>>,
                                value |-> st.node[<<section, key>>].value,
                                exc |-> r.value]]
    ELSE [st EXCEPT !.node = [st.node EXCEPT ![<<section, key>>].value = r.value],
                    !.environ = IF section = "env" THEN (key :> r.value) @@ st.environ
                                ELSE st.environ]

\* lines 156-167
RECURSIVE expand_variables(_, _, _)
expand_variables(st, section, paths) ==
    IF paths = <<>> \/ st.exc # NoExc THEN st
    ELSE expand_variables(
             expanded_variable(st, section, Head(paths)[2],
                 env_var_process(st.node[Head(paths)].value, st.environ)),
             section, Tail(paths))

\* the options of the section, as its dictionary holds them
items(st, section) == SelectSeq(st.order, LAMBDA q : q[1] = section)

expand_section(st, section) == expand_variables(st, section, items(st, section))

\* lines 126-167, for one section
process_section(st, section, rose_orig_host) ==
    IF st.exc # NoExc THEN st
    ELSE expand_section(standard_variables(st, section, rose_orig_host), section)

\* lines 116-120
ensure_section(st, section) ==
    IF section \in TopKeys(st.node) THEN st
    ELSE [st EXCEPT !.node = node_set(st.node, <<section>>, None, None, None)]

\* lines 116-167
process_sections(st, templating, rose_orig_host) ==
    process_section(
        process_section(ensure_section(ensure_section(st, "env"), templating),
                        "env", rose_orig_host),
        templating, rose_orig_host)

\* A slip: the legacy name is reported as it is.
templating_detected_unstripped(templating) == Some(templating)

\* lines 96-113: an optional string, None by default and always set;
\* replace(':suite.rc', '') of the two legacy names
templating_detected(templating) ==
    IF templating = "jinja2:suite.rc" THEN Some("jinja2")
    ELSE IF templating = "empy:suite.rc" THEN Some("empy")
    ELSE Some(templating)

\* A slip: the state of an option is not looked at.
normal_items_any_state(st, section) == SelectSeq(st.order, LAMBDA q : q[1] = section)

\* lines 171-180: the options of the section whose state is normal
normal_items(st, section) ==
    SelectSeq(items(st, section), LAMBDA q : st.node[q].state = STATE_NORMAL)

\* lines 171-175
env_result(st) ==
    [key \in {q[2] : q \in SeqToSet(normal_items(st, "env"))} |->
        st.node[<<"env", key>>].value]

\* lines 189-203: the template variables that are not literals
invalid_template_variables(st, templating) ==
    SelectSeq(normal_items(st, templating),
              LAMBDA q : q[2] \notin SPECIAL_VARIABLES /\ ~IsLiteral(st.node[q].value))

\* lines 176-207
template_variables_result(st, templating) ==
    [key \in {q[2] : q \in SeqToSet(normal_items(st, templating))}
             \cup {"ROSE_SUITE_VARIABLES"} |->
        IF key = "ROSE_SUITE_VARIABLES"
        THEN [type |-> "template_variables", value |-> <<>>]
        ELSE IF key \in SPECIAL_VARIABLES
        THEN [type |-> "str", value |-> st.node[<<templating, key>>].value]
        ELSE literal_eval(st.node[<<templating, key>>].value)]

(***************************************************************************)
(* patch_jinja2_leading_zeros (jinja2_parser.py:93-185), the context that  *)
(* process_config evaluates the template variables in (utilities.py:184).  *)
(* integer_re is the pattern jinja2.lexer.integer_re as the alternatives   *)
(* it is built of, Lexer.wrap the functions wrapped around the library's.  *)
(***************************************************************************)
JINJA2_LEXER == [integer_re |-> <<"integer_re">>, wrap |-> <<"Lexer.wrap">>]

\* lines 143-157: the pattern with the zero-padded alternative before it,
\* _lexer_wrap around Lexer.wrap
patched(lex) ==
    [integer_re |-> <<"zero-padded">> \o lex.integer_re,
     wrap |-> <<"_inner">> \o lex.wrap]

\* lines 180-181: _integer_re is the copy made on entry, __wrapped__ what
\* the outermost _inner was put around
reverted(lex, saved_integer_re) ==
    [integer_re |-> saved_integer_re, wrap |-> Tail(lex.wrap)]

\* The generator of a contextmanager is resumed at its yield when the body
\* of the with has finished, and has the exception of the body thrown in
\* at its yield when the body raised: nothing after the yield is executed
\* then, there being no try around it.
patch_jinja2_leading_zeros(lex, raised) ==
    IF raised THEN patched(lex)
    ELSE reverted(patched(lex), lex.integer_re)

\* utilities.py:184-203: the lexer after the call; st is the state after
\* the sections were processed, invalid the template variables that are not
\* literals
lexer_result(lex, st, invalid) ==
    IF st.exc # NoExc THEN lex
    ELSE patch_jinja2_leading_zeros(lex, invalid # <<>>)

\* lines 169-209: st is the state after the sections were processed
plugin_result(st, templating, invalid) ==
    IF st.exc # NoExc THEN st
    ELSE IF invalid # <<>>
    THEN [st EXCEPT !.exc = "ConfigProcessError",
                    !.detail = [keys |-> Head(invalid),
                                value |-> st.node[Head(invalid)].value,
                                exc |-> <<"Invalid template variable">>]]
    ELSE [st EXCEPT !.value =
             [env |-> env_result(st),
              template_variables |-> template_variables_result(st, templating),
              templating_detected |-> templating_detected(templating)]]

processed(st, templating) ==
    plugin_result(st, templating, invalid_template_variables(st, templating))

Started(tree, environ) ==
    [node |-> tree.node, order |-> tree.order, environ |-> environ,
     log |-> <<>>, exc |-> NoExc, detail |-> <<>>, value |-> <<>>]

\* the lexer that a call of process_config leaves
lexer_processed(lex, st, templating) ==
    lexer_result(lex, st, invalid_template_variables(st, templating))

process_config_lexer(lex, tree, environ, rose_orig_host) ==
    IF identify_templating_section(tree.node).exc # NoExc THEN lex
    ELSE lexer_processed(
             lex,
             process_sections(Started(tree, environ),
                              identify_templating_section(tree.node).value,
                              rose_orig_host),
             identify_templating_section(tree.node).value)

process_config(tree, environ, rose_orig_host) ==
    IF identify_templating_section(tree.node).exc # NoExc
    THEN [Started(tree, environ) EXCEPT
             !.exc = identify_templating_section(tree.node).exc]
    ELSE processed(
             process_sections(Started(tree, environ),
                              identify_templating_section(tree.node).value,
                              rose_orig_host),
             identify_templating_section(tree.node).value)

(***************************************************************************)
(* The option-list functions applied to bounded inputs.                    *)
(***************************************************************************)
ListElems == {<<"a">>, <<"b">>, <<"a", " ", "b">>}

Environs(S) ==
    {<< >>} \cup {[n \in {ROSE_SUITE_OPT_CONF_KEYS} |-> s] : s \in S}

\* The examples of the docstring of simplify_opts_strings (lines 643-654).
ExampleOpts ==
    {<<"a", " ", "b", " ", "c">>,
     <<"a", " ", "b", " ", "c", " ", "d", " ", "b">>,
     <<"a", " ", "b", " ", "c", " ", "b", " ", "d">>}

InitOpts ==
    /\ pc = "call"
    /\ \/ \E s \in StrsUpTo(OptChars, MaxOptLen) \cup ExampleOpts :
             args = [fn |-> "simplify_opts_strings", opts |-> s]
       \/ \E d \in StrsUpTo(OptChars, MaxPartLen),
             e \in Environs(StrsUpTo(OptChars, MaxPartLen)),
             c \in {OptConfKeysStr(s) : s \in StrsUpTo(OptChars, MaxPartLen)}
                   \cup {OptConfKeysList(l) : l \in StrsUpTo(ListElems, MaxListLen)} :
             args = [fn |-> "merge_opts",
                     config |-> [p \in {<<"opts">>} |-> Leaf(d, STATE_NORMAL, <<>>)],
                     opt_conf_keys |-> c, environ |-> e]
    /\ ret = <<>>
    /\ record = NoFile /\ roseConf = NoFile /\ prev = <<>>
    /\ lexer = JINJA2_LEXER
    /\ config_tree = <<>> /\ os_environ = <<>>

CallSimplifyOptsStrings ==
    /\ pc = "call" /\ args.fn = "simplify_opts_strings"
    /\ ret' = simplify_opts_strings(args.opts)
    /\ pc' = "done"
    /\ UNCHANGED <<args, record, roseConf, config_tree, os_environ, prev, lexer>>

CallMergeOpts ==
    /\ pc = "call" /\ args.fn = "merge_opts"
    /\ ret' = merge_opts(args.config, args.opt_conf_keys, args.environ)
    /\ pc' = "done"
    /\ UNCHANGED <<args, record, roseConf, config_tree, os_environ, prev, lexer>>

NextOpts == CallSimplifyOptsStrings \/ CallMergeOpts

SpecOpts == InitOpts /\ [][NextOpts]_vars

(***************************************************************************)
(* The tree functions applied to bounded trees.                            *)
(***************************************************************************)
\* The tree with one section and the given keys in it.
SectionTree(name, content) ==
    [p \in {<<name>>} \cup {<<name, k>> : k \in DOMAIN content} |->
        IF Len(p) = 1 THEN Section(STATE_NORMAL, <<>>) ELSE content[p[2]]]

\* The tree with one top-level option.
OptionTree(name, value, state) == (<<name>> :> Leaf(value, state, <<>>))

Val(w) == Leaf(<<w>>, STATE_NORMAL, <<>>)

\* Trees for identify_templating_section: any of the three dialect sections,
\* empty or not, next to env and opts.
IdentTrees ==
    {a @@ b @@ c @@ d @@ e :
        a \in {EmptyNode, OptionTree("opts", <<"a">>, STATE_USER_IGNORED)},
        b \in {EmptyNode, SectionTree("env", << >>)},
        c \in {EmptyNode, SectionTree("template variables", << >>),
               SectionTree("template variables", [k \in {"FOO"} |-> Val("1")])},
        d \in {EmptyNode, SectionTree("jinja2:suite.rc", << >>),
               SectionTree("jinja2:suite.rc", [k \in {"FOO"} |-> Val("1")])},
        e \in {EmptyNode, SectionTree("empy:suite.rc", << >>),
               SectionTree("empy:suite.rc", [k \in {"FOO"} |-> Val("1")])}}

\* Install records as record_cylc_install_options merges them: both trees
\* have passed identify_templating_section (lines 927 and 944), so each has at
\* most one dialect section.
OldOptsTrees ==
    {EmptyNode}
    \cup {OptionTree("opts", v, st) : v \in StrsUpTo(OptChars, MaxMergeLen),
                                      st \in {STATE_NORMAL, STATE_USER_IGNORED}}
    \cup {OptionTree("opts", <<"a", " ", "b", " ", "c">>, STATE_USER_IGNORED)}

NewOptsTrees ==
    {EmptyNode}
    \cup {OptionTree("opts", v, STATE_USER_IGNORED) : v \in StrsUpTo(OptChars, MaxMergeLen)}
    \cup {OptionTree("opts", <<"c", " ", "d", " ", "e">>, STATE_USER_IGNORED)}

OldEnvTrees ==
    {EmptyNode, SectionTree("env", [k \in {"FOO"} |-> Val("1")])}

NewEnvTrees ==
    {EmptyNode, SectionTree("env", << >>), SectionTree("env", [k \in {"FOO"} |-> Val("2")])}

OldDialectTrees ==
    {EmptyNode}
    \cup {SectionTree(sec, c) : sec \in SECTIONS,
            c \in {<< >>, [k \in {"FOO"} |-> Val("1")], [k \in {"FOO", "BAR"} |-> Val("1")]}}

NewDialectTrees ==
    {EmptyNode}
    \cup {SectionTree(sec, c) : sec \in SECTIONS,
            c \in {<< >>, [k \in {"BAR"} |-> Val("2")], [k \in {"FOO"} |-> Val("2")]}}

InitNode ==
    /\ pc = "call"
    /\ \/ \E t \in IdentTrees :
             args = [fn |-> "identify_templating_section", config_node |-> t]
       \/ \E oo \in OldOptsTrees, oe \in OldEnvTrees, od \in OldDialectTrees,
             no \in NewOptsTrees, ne \in NewEnvTrees, nd \in NewDialectTrees :
             args = [fn |-> "merge_rose_cylc_suite_install_conf",
                     old |-> oo @@ oe @@ od, new |-> no @@ ne @@ nd]
    /\ ret = <<>>
    /\ record = NoFile /\ roseConf = NoFile /\ prev = <<>>
    /\ lexer = JINJA2_LEXER
    /\ config_tree = <<>> /\ os_environ = <<>>

CallIdentifyTemplatingSection ==
    /\ pc = "call" /\ args.fn = "identify_templating_section"
    /\ ret' = identify_templating_section(args.config_node)
    /\ pc' = "done"
    /\ UNCHANGED <<args, record, roseConf, config_tree, os_environ, prev, lexer>>

CallMergeRoseCylcSuiteInstallConf ==
    /\ pc = "call" /\ args.fn = "merge_rose_cylc_suite_install_conf"
    /\ \E order \in Orders(SECTIONS) :
          ret' = Returns(merge_rose_cylc_suite_install_conf(args.old, args.new, order))
    /\ pc' = "done"
    /\ UNCHANGED <<args, record, roseConf, config_tree, os_environ, prev, lexer>>

NextNode == CallIdentifyTemplatingSection \/ CallMergeRoseCylcSuiteInstallConf

SpecNode == InitNode /\ [][NextNode]_vars

(***************************************************************************)
(* Installs and reinstalls into one run directory.  Each is a process of   *)
(* its own: it runs with its options, host and environment (PostInstall,   *)
(* or RecordCylcInstallOptions alone) and ends (Return).                   *)
(***************************************************************************)
Hosts == {"h1", "h2"}

EnvSamples == {<< >>, [n \in {ROSE_SUITE_OPT_CONF_KEYS} |-> <<"b">>]}

\* --opt-conf-key given not at all, and once
CliSamples == {OptConfKeysList(<<>>), OptConfKeysList(<< <<"a">> >>)}

DefineSamples ==
    {<<>>,
     << <<"[", "env", "]", "FOO", "=", "1">> >>,
     << <<"[", "jinja2:suite.rc", "]", "BAR", "=", "1">> >>}

TemplateVarSamples == {<<>>, << <<"BAR", "=", "2">> >>}

\* <srcdir>/rose-suite.conf: with opts and no templating section, with opts
\* that is ignored, and with [jinja2:suite.rc]
SrcConfs ==
    {dump(OptionTree("opts", <<"z">>, STATE_NORMAL), <<>>),
     dump(OptionTree("opts", <<"y">>, STATE_USER_IGNORED), <<>>),
     dump(SectionTree("jinja2:suite.rc", [k \in {"X"} |-> Val("1")]), <<>>)}

OptsObjects ==
    [opt_conf_keys : CliSamples, defines : DefineSamples,
     rose_template_vars : TemplateVarSamples, clear_rose_install_opts : BOOLEAN]

Init ==
    /\ pc = "idle" /\ args = <<>> /\ ret = <<>>
    /\ record = NoFile /\ roseConf = NoFile /\ prev = <<>>
    /\ lexer = JINJA2_LEXER
    /\ config_tree = <<>> /\ os_environ = <<>>

\* What a call leaves: the files, what it was called with, what it found
\* and how it ended.
Run(fn, src, o, h, e, out, value) ==
    /\ args' = [fn |-> fn, srcConf |-> src, opts |-> o, host |-> h, environ |-> e]
    /\ prev' = Files(record, roseConf)
    /\ record' = out.record
    /\ roseConf' = out.roseConf
    /\ ret' = [exc |-> out.exc, value |-> value]
    /\ pc' = "done"
    /\ UNCHANGED <<config_tree, os_environ, lexer>>

PostInstall ==
    /\ pc = "idle"
    /\ \E src \in SrcConfs \cup {NoFile}, o \in OptsObjects, h \in Hosts,
          e \in EnvSamples, order \in Orders(SECTIONS) :
          Run("post_install", src, o, h, e,
              post_install(src, Files(record, roseConf), o, h, e, order),
              src # NoFile)

\* The function called by itself on a new run directory, for a source
\* directory with no rose-suite.conf.
RecordCylcInstallOptions ==
    /\ pc = "idle" /\ record = NoFile /\ roseConf = NoFile
    /\ \E o \in OptsObjects, h \in Hosts, e \in EnvSamples,
          order \in Orders(SECTIONS) :
          Run("record_cylc_install_options", NoFile, o, h, e,
              record_cylc_install_options(NoFile, Files(record, roseConf),
                                          o, h, e, order),
              TRUE)

Return ==
    /\ pc = "done"
    /\ pc' = "idle" /\ args' = <<>> /\ ret' = <<>> /\ prev' = <<>>
    /\ UNCHANGED <<record, roseConf, config_tree, os_environ, lexer>>

Next == PostInstall \/ RecordCylcInstallOptions \/ Return

Spec == Init /\ [][Next]_vars

(***************************************************************************)
(* Passes of process_config over one tree and one environ mapping: the     *)
(* validate and reload passes, each on the host it runs on.                *)
(***************************************************************************)
Entry(section, key, value, state, comments) ==
    [path |-> <<section, key>>, node |-> Leaf(value, state, comments)]

\* The tree with the sections given and the options given, in that order.
OrderedTree(sections, entries) ==
    [node |-> [q \in {<<x>> : x \in sections}
                     \cup {entries[i].path : i \in DOMAIN entries} |->
                  IF Len(q) = 1 THEN Section(STATE_NORMAL, <<>>)
                  ELSE entries[CHOOSE i \in DOMAIN entries : entries[i].path = q].node],
     order |-> [i \in DOMAIN entries |-> entries[i].path]]

\* ROSE_ORIG_HOST as a section may hold it: not at all, set by hand, recorded
\* by cylc install on host h0 (the comment alone or after another), ignored
HostOptions(section) ==
    {<<>>}
    \cup {<<Entry(section, "ROSE_ORIG_HOST", <<"h0">>, STATE_NORMAL, c)>> :
            c \in {<<>>, <<ROSE_ORIG_HOST_INSTALLED_OVERRIDE_STRING>>,
                   <<" note", ROSE_ORIG_HOST_INSTALLED_OVERRIDE_STRING>>}}
    \cup {<<Entry(section, "ROSE_ORIG_HOST", <<"h0">>, STATE_USER_IGNORED, <<>>)>>}

\* ROSE_VERSION and CYLC_VERSION: not set, set by hand, set and ignored, and
\* with the comment that cylc install gives ROSE_ORIG_HOST
VersionOptions(section) ==
    {<<>>,
     <<Entry(section, "ROSE_VERSION", <<"9">>, STATE_NORMAL, <<>>),
       Entry(section, "CYLC_VERSION", <<"8">>, STATE_NORMAL, <<>>)>>,
     <<Entry(section, "ROSE_VERSION", <<"9">>, STATE_USER_IGNORED, <<" note">>),
       Entry(section, "CYLC_VERSION", <<"8">>, STATE_USER_IGNORED, <<>>)>>,
     <<Entry(section, "ROSE_VERSION", <<"9">>, STATE_NORMAL,
             <<ROSE_ORIG_HOST_INSTALLED_OVERRIDE_STRING>>),
       Entry(section, "CYLC_VERSION", <<"8">>, STATE_NORMAL,
             <<ROSE_ORIG_HOST_INSTALLED_OVERRIDE_STRING>>)>>}

EnvOptions ==
    {<<>>,
     <<Entry("env", "A", <<"1">>, STATE_NORMAL, <<>>)>>,
     <<Entry("env", "A", <<"$X">>, STATE_NORMAL, <<>>)>>,
     <<Entry("env", "A", <<"1">>, STATE_SYST_IGNORED, <<>>)>>,
     <<Entry("env", "A", <<BACKSLASH, "$X">>, STATE_NORMAL, <<>>)>>,
     <<Entry("env", "A", <<"$X">>, STATE_NORMAL, <<>>),
       Entry("env", "C", <<"${A}">>, STATE_NORMAL, <<>>)>>}

TemplateOptions(section) ==
    {<<>>,
     <<Entry(section, "B", <<"$A">>, STATE_NORMAL, <<>>)>>,
     <<Entry(section, "B", <<"bad">>, STATE_NORMAL, <<>>)>>,
     <<Entry(section, "B", <<"bad">>, STATE_SYST_IGNORED, <<>>)>>}

EnvSections ==
    {OrderedTree({}, <<>>)}
    \cup {OrderedTree({"env"}, h \o v \o a) :
            h \in HostOptions("env"), v \in VersionOptions("env"), a \in EnvOptions}

TemplateSections ==
    {OrderedTree({}, <<>>)}
    \cup UNION {{OrderedTree({x}, h \o v \o b) :
                   h \in HostOptions(x), v \in VersionOptions(x),
                   b \in TemplateOptions(x)} :
                x \in {"jinja2:suite.rc", "template variables"}}
    \cup {OrderedTree({"empy:suite.rc"}, h) : h \in HostOptions("empy:suite.rc")}

\* two templating sections at once
ClashingSections ==
    {OrderedTree({"jinja2:suite.rc", "template variables"},
                 <<Entry("template variables", "B", <<"1">>, STATE_NORMAL, <<>>)>>)}

Join(t1, t2) == [node |-> t1.node @@ t2.node, order |-> t1.order \o t2.order]

ConfigTrees ==
    {Join(e, t) : e \in EnvSections, t \in TemplateSections}
    \cup ClashingSections

EnvironSamples == {<< >>, ("X" :> <<"2">>)}

InitProc ==
    /\ pc = "call"
    /\ config_tree \in ConfigTrees
    /\ os_environ \in EnvironSamples
    /\ args \in {[fn |-> "process_config", host |-> h] : h \in Hosts}
    /\ ret = <<>> /\ prev = <<>>
    /\ record = NoFile /\ roseConf = NoFile
    /\ lexer = JINJA2_LEXER

ProcessConfig ==
    /\ pc = "call" /\ args.fn = "process_config"
    /\ LET st == process_config(config_tree, os_environ, args.host)
       IN  /\ config_tree' = [node |-> st.node, order |-> st.order]
           /\ os_environ' = st.environ
           /\ ret' = [exc |-> st.exc, detail |-> st.detail, value |-> st.value,
                      log |-> st.log]
    /\ lexer' = process_config_lexer(lexer, config_tree, os_environ, args.host)
    /\ prev' = [config_tree |-> config_tree, environ |-> os_environ,
                last |-> prev]
    /\ pc' = "done"
    /\ UNCHANGED <<args, record, roseConf>>

\* another pass over the tree and the environ as the pass before left them;
\* what that pass returned, and where it ran, is kept for comparison
NextPass ==
    /\ pc = "done" /\ ret.exc = NoExc
    /\ \E h \in Hosts : args' = [fn |-> "process_config", host |-> h]
    /\ pc' = "call"
    /\ ret' = <<>> /\ prev' = [value |-> ret.value, host |-> args.host]
    /\ UNCHANGED <<config_tree, os_environ, record, roseConf, lexer>>

NextProc == ProcessConfig \/ NextPass

SpecProc == InitProc /\ [][NextProc]_vars

(***************************************************************************)
(* Calls of the loading functions on a source directory.                   *)
(***************************************************************************)
LoadDefines ==
    {<<"[", "env", "]", "FOO", "=", "1">>,
     <<"[", "template variables", "]", "X", "=", "1">>,
     <<"FOO", "=", "1">>,
     <<"!", "FOO", "=", "1">>,
     <<"foo">>,
     <<"bar52">>}

MaxDefines == 2

DefineLists == UNION {[1..n -> LoadDefines] : n \in 0..MaxDefines}

LoadTemplateVars ==
    {<<>>, << <<"BAR", "=", "2">> >>, << <<"BAR", "=", "2">>, <<"BAZ", "=", "3">> >>}

\* <srcdir>/rose-suite.conf: absent, empty, with one dialect section, with two
LoadConfs ==
    {NoFile, dump(EmptyNode, <<>>)}
    \cup {dump(SectionTree(x, [k \in {"X"} |-> Val("1")]), <<>>) : x \in SECTIONS}
    \cup {dump(SectionTree("jinja2:suite.rc", [k \in {"X"} |-> Val("1")])
               @@ SectionTree("empy:suite.rc", [k \in {"X"} |-> Val("1")])
               @@ OptionTree("root-dir", <<"d">>, STATE_NORMAL), <<>>)}

LoadOpts ==
    {None}
    \cup [opt_conf_keys : {OptConfKeysList(<<>>), OptConfKeysList(<< <<"a">> >>),
                           OptConfKeysStr(<<"a">>)},
          defines : {d \in DefineLists : Len(d) <= 1},
          rose_template_vars : LoadTemplateVars]

\* the options of calls of get_cli_opts_node
CliDefines ==
    {<<>>,
     << <<"opts", "=", "A", " ", "B", " ", "C">> >>,
     << <<"[", "]", "!", "FOO", "=", "x">> >>,
     << <<"[", "]", "!", "!", "opts", "=", "x">> >>,
     << <<"[", "env", "]", "!", "FOO", "=", "1">> >>,
     << <<"[", "env", "]", "FOO", "=", "1">> >>}

CliOpts ==
    [opt_conf_keys : {OptConfKeysList(<<>>),
                      OptConfKeysStr(<<"E", " ", "F", " ", "G">>)},
     defines : CliDefines,
     rose_template_vars : {<<>>, << <<"BAR", "=", "2">> >>},
     clear_rose_install_opts : {FALSE}]

CliEnvirons ==
    {<< >>, [n \in {ROSE_SUITE_OPT_CONF_KEYS} |-> <<"C", " ", "D", " ", "E">>]}

CliConfs ==
    {NoFile, dump(SectionTree("jinja2:suite.rc", [k \in {"X"} |-> Val("1")]), <<>>)}

InitLoad ==
    /\ pc = "call"
    /\ args \in [fn : {"invalid_defines_check"}, defines : DefineLists]
          \cup [fn : {"rose_config_tree_loader"},
                srcConf : LoadConfs \ {NoFile},
                defines : {d \in DefineLists :
                              \A i \in DOMAIN d : parse_cli_defines(d[i]).ok},
                rose_template_vars : LoadTemplateVars]
          \cup [fn : {"load_rose_config"}, srcConf : LoadConfs, opts : LoadOpts,
                cylc7_back_compat : BOOLEAN]
          \cup [fn : {"get_cli_opts_node"}, srcConf : CliConfs, opts : CliOpts,
                host : {"h1"}, environ : CliEnvirons]
    /\ ret = <<>> /\ prev = <<>>
    /\ record = NoFile /\ roseConf = NoFile
    /\ lexer = JINJA2_LEXER
    /\ config_tree = <<>> /\ os_environ = <<>>

CallInvalidDefinesCheck ==
    /\ pc = "call" /\ args.fn = "invalid_defines_check"
    /\ ret' = invalid_defines_check(args.defines)
    /\ pc' = "done"
    /\ UNCHANGED <<args, record, roseConf, config_tree, os_environ, prev, lexer>>

CallRoseConfigTreeLoader ==
    /\ pc = "call" /\ args.fn = "rose_config_tree_loader"
    /\ ret' = [exc |-> rose_config_tree_loader(args.srcConf.tree, args.defines,
                                               args.rose_template_vars).exc,
               value |-> rose_config_tree_loader(args.srcConf.tree, args.defines,
                                                 args.rose_template_vars).value,
               calls |-> loader_calls(args.srcConf.tree, args.defines,
                                      args.rose_template_vars),
               opts |-> [defines |-> loader_defines(args.srcConf.tree, args.defines,
                                                    args.rose_template_vars),
                         rose_template_vars |-> args.rose_template_vars]]
    /\ pc' = "done"
    /\ UNCHANGED <<args, record, roseConf, config_tree, os_environ, prev, lexer>>

CallLoadRoseConfig ==
    /\ pc = "call" /\ args.fn = "load_rose_config"
    /\ ret' = load_rose_config(args.srcConf, args.opts, args.cylc7_back_compat)
    /\ pc' = "done"
    /\ UNCHANGED <<args, record, roseConf, config_tree, os_environ, prev, lexer>>

CallGetCliOptsNode ==
    /\ pc = "call" /\ args.fn = "get_cli_opts_node"
    /\ ret' = [exc |-> get_cli_opts_node(args.srcConf, args.opts, args.host,
                                         args.environ).exc,
               value |-> get_cli_opts_node(args.srcConf, args.opts, args.host,
                                           args.environ).value,
               opts |-> get_cli_opts_node_opts(args.srcConf, args.opts, args.host)]
    /\ pc' = "done"
    /\ UNCHANGED <<args, record, roseConf, config_tree, os_environ, prev, lexer>>

NextLoad ==
    \/ CallInvalidDefinesCheck
    \/ CallRoseConfigTreeLoader
    \/ CallLoadRoseConfig
    \/ CallGetCliOptsNode

SpecLoad == InitLoad /\ [][NextLoad]_vars

(***************************************************************************)
(* get_platforms_from_task_jobs (platform_utils.py:113-184).  The rows of  *)
(* task_jobs at the cycle point are <<task, platform_n, submit_num>>.  An  *)
(* attempt to read them raises sqlite3.OperationalError on connecting or   *)
(* while the rows are fetched, or gets them all.  The locals of the call   *)
(* are [try, task_platform_map, db_exc, slept, closed].                    *)
(***************************************************************************)
\* line 151: range(10)
RETRIES == 10

\* the platforms of the global configuration
PLATFORMS == {"p1", "p2"}

\* cylc.flow.platforms.get_platform
get_platform(platform_n) ==
    IF platform_n \in PLATFORMS THEN Returns([name |-> platform_n])
    ELSE Raises("PlatformLookupError")

\* lines 156-168, for one row
read_row(task_platform_map, row, platform) ==
    IF platform.exc # NoExc THEN task_platform_map
    ELSE IF row[1] \notin DOMAIN task_platform_map
            \/ task_platform_map[row[1]][1] < row[3]
    THEN (row[1] :> <<row[3], platform.value>>) @@ task_platform_map
    ELSE task_platform_map

\* lines 153-168: the rows that were fetched, in order
RECURSIVE read_rows(_, _)
read_rows(task_platform_map, rows) ==
    IF rows = <<>> THEN task_platform_map
    ELSE read_rows(read_row(task_platform_map, Head(rows), get_platform(Head(rows)[2])),
                   Tail(rows))

\* lines 181-184
without_submit_num(task_platform_map) ==
    [key \in DOMAIN task_platform_map |-> task_platform_map[key][2]]

\* A slip: one attempt more than the range has.
retries_left_and_one(try) == try < RETRIES

\* line 151: there is another value in the range after this one
retries_left(try) == try + 1 < RETRIES

Tasks == {"foo", "bar"}
SubmitNums == {1, 2}
MaxRows == 2

Rows == Tasks \X (PLATFORMS \cup {"nowhere"}) \X SubmitNums

RowLists ==
    {<<>>}
    \cup {<<r>> : r \in Rows}
    \cup {l \in UNION {[1..n -> {r \in Rows : r[1] = "foo" \/ r[2] # "p2"}] :
                          n \in 2..MaxRows} :
             \A i, j \in DOMAIN l : i < j => l[i] # l[j]}

InitDb ==
    /\ pc = "try"
    /\ args \in [fn : {"get_platforms_from_task_jobs"}, rows : RowLists]
    /\ prev = [try |-> 0, task_platform_map |-> << >>, db_exc |-> None,
               slept |-> 0, closed |-> FALSE]
    /\ ret = <<>>
    /\ record = NoFile /\ roseConf = NoFile
    /\ lexer = JINJA2_LEXER
    /\ config_tree = <<>> /\ os_environ = <<>>

\* lines 153-170: the attempt raises sqlite3.OperationalError, on connect()
\* or execute() (fetched = 0) or after some rows
AttemptRaises ==
    /\ pc = "try"
    /\ \E fetched \in 0..Len(args.rows) :
          prev' = [prev EXCEPT
                      !.task_platform_map =
                          read_rows(prev.task_platform_map,
                                    SubSeq(args.rows, 1, fetched)),
                      !.db_exc = Some(prev.try)]
    /\ pc' = "sleep"
    /\ UNCHANGED <<args, ret, record, roseConf, config_tree, os_environ, lexer>>

\* lines 171-177: sleep(0.1), then the next attempt, or after the last one
\* the else of the loop and the finally
Sleep ==
    /\ pc = "sleep"
    /\ IF retries_left(prev.try)
       THEN /\ prev' = [prev EXCEPT !.try = prev.try + 1, !.slept = prev.slept + 1]
            /\ pc' = "try"
            /\ UNCHANGED ret
       ELSE /\ prev' = [prev EXCEPT !.slept = prev.slept + 1, !.closed = TRUE]
            /\ pc' = "done"
            /\ ret' = [exc |-> "sqlite3.OperationalError", value |-> prev.db_exc]
    /\ UNCHANGED <<args, record, roseConf, config_tree, os_environ, lexer>>

\* lines 153-169 and 178-184: the attempt gets every row; break, finally,
\* return
AttemptReturns ==
    /\ pc = "try"
    /\ prev' = [prev EXCEPT
                   !.task_platform_map = read_rows(prev.task_platform_map, args.rows),
                   !.closed = TRUE]
    /\ ret' = Returns(without_submit_num(
                  read_rows(prev.task_platform_map, args.rows)))
    /\ pc' = "done"
    /\ UNCHANGED <<args, record, roseConf, config_tree, os_environ, lexer>>

NextDb == AttemptRaises \/ Sleep \/ AttemptReturns

\* a call that is under way goes on
SpecDb == InitDb /\ [][NextDb]_vars /\ WF_vars(NextDb)

(***************************************************************************)
(* Vocabulary of the properties.                                           *)
(***************************************************************************)
NoDuplicates(s) == \A i, j \in 1..Len(s) : s[i] = s[j] => i = j

LastIndex(s, x) == CHOOSE i \in 1..Len(s) : s[i] = x /\ \A j \in (i + 1)..Len(s) : s[j] # x

\* toks is the tokens of src, each once, in the order of their last occurrence
IsLastWinsDedup(toks, src) ==
    /\ NoDuplicates(toks)
    /\ SeqToSet(toks) = SeqToSet(src)
    /\ \A i, j \in 1..Len(toks) :
          i < j => LastIndex(src, toks[i]) < LastIndex(src, toks[j])

\* A string that is its tokens separated by single spaces.
WellFormed(s) == s = join(<<" ">>, split(s))

Str(w) == <<w>>

(***************************************************************************)
(* C1: simplify_opts_strings(s) contains each distinct token of s exactly  *)
(* once, the tokens ordered by the position of their last occurrence in s; *)
(* 'a b a' gives 'b a'.                                                    *)
(***************************************************************************)
C1_SimplifyLastWins ==
    (pc = "done" /\ args.fn = "simplify_opts_strings") =>
        /\ IsLastWinsDedup(split(ret), split(args.opts))
        /\ WellFormed(ret)
        /\ (args.opts = <<"a", " ", "b", " ", "a">> => ret = <<"b", " ", "a">>)
        /\ (args.opts = <<"a", " ", "b", " ", "c", " ", "d", " ", "b">>
               => ret = <<"a", " ", "c", " ", "d", " ", "b">>)

C1_Witness ==
    /\ pc = "done" /\ args.fn = "simplify_opts_strings"
    /\ args.opts = <<"a", " ", "b", " ", "a">>
    /\ ret = <<"b", " ", "a">>

(***************************************************************************)
(* C2: the tokens of merge_opts(config, opt_conf_keys) are those of the    *)
(* declared opts, of ROSE_SUITE_OPT_CONF_KEYS and of the CLI keys (a       *)
(* string or a list), each at the position of its last occurrence in       *)
(* declared + environment + CLI.                                           *)
(***************************************************************************)
RECURSIVE TokensOfAll(_)
TokensOfAll(parts) ==
    IF parts = <<>> THEN <<>> ELSE split(Head(parts)) \o TokensOfAll(Tail(parts))

EnvTokens(environ) ==
    IF ROSE_SUITE_OPT_CONF_KEYS \in DOMAIN environ
    THEN split(environ[ROSE_SUITE_OPT_CONF_KEYS]) ELSE <<>>

CliTokens(opt_conf_keys) ==
    IF opt_conf_keys.isList THEN TokensOfAll(opt_conf_keys.list)
    ELSE split(opt_conf_keys.str)

C2_MergeOptsPrecedence ==
    (pc = "done" /\ args.fn = "merge_opts") =>
        /\ IsLastWinsDedup(split(ret),
                           split(args.config[<<"opts">>].value)
                           \o EnvTokens(args.environ)
                           \o CliTokens(args.opt_conf_keys))
        /\ WellFormed(ret)

\* declared 'ab', environment 'b ', CLI ['a b', 'a']: the sources overlap
C2_Witness ==
    /\ pc = "done" /\ args.fn = "merge_opts"
    /\ args.config[<<"opts">>].value = <<"a", "b">>
    /\ args.environ = [n \in {ROSE_SUITE_OPT_CONF_KEYS} |-> <<"b", " ">>]
    /\ args.opt_conf_keys = OptConfKeysList(<<Str("a") \o <<" ">> \o Str("b"), Str("a")>>)
    /\ ret = <<"a", "b", " ", "b", " ", "a">>

(***************************************************************************)
(* C3: identify_templating_section(node) raises                            *)
(* MultipleTemplatingEnginesError when two or more of the three dialect    *)
(* sections are present, returns the one present when there is exactly     *)
(* one, and returns 'template variables' when there is none.               *)
(***************************************************************************)
DialectsOf(node) == SECTIONS \cap TopKeys(node)

C3_DialectExclusive ==
    (pc = "done" /\ args.fn = "identify_templating_section") =>
        LET present == DialectsOf(args.config_node)
        IN  /\ Cardinality(present) >= 2 =>
                  ret.exc = "MultipleTemplatingEnginesError"
            /\ Cardinality(present) = 1 =>
                  ret.exc = NoExc /\ ret.value \in present
            /\ present = {} =>
                  ret.exc = NoExc /\ ret.value = "template variables"

C3_Witness ==
    /\ pc = "done" /\ args.fn = "identify_templating_section"
    /\ DialectsOf(args.config_node) = {"jinja2:suite.rc", "empy:suite.rc"}
    /\ ret.exc = "MultipleTemplatingEnginesError"

(***************************************************************************)
(* C4: when old and new both carry opts, the merged opts value is the      *)
(* last-occurrence-wins de-duplication of old's tokens followed by new's   *)
(* ('a b c' and 'c d e' give 'a b c d e'); when only old carries opts, the *)
(* merged opts value is old's.                                             *)
(***************************************************************************)
OPTS == <<"opts">>

MergeDone == pc = "done" /\ args.fn = "merge_rose_cylc_suite_install_conf"

C4_MergedOpts ==
    MergeDone =>
        /\ (OPTS \in DOMAIN args.old /\ OPTS \in DOMAIN args.new) =>
              /\ OPTS \in DOMAIN ret.value
              /\ IsLastWinsDedup(split(ret.value[OPTS].value),
                                 split(args.old[OPTS].value) \o split(args.new[OPTS].value))
              /\ WellFormed(ret.value[OPTS].value)
        /\ (OPTS \in DOMAIN args.old /\ OPTS \notin DOMAIN args.new) =>
              /\ OPTS \in DOMAIN ret.value
              /\ ret.value[OPTS].value = args.old[OPTS].value

C4_Witness ==
    /\ MergeDone
    /\ OPTS \in DOMAIN args.old /\ args.old[OPTS].value = <<"a", " ", "b", " ", "c">>
    /\ OPTS \in DOMAIN args.new /\ args.new[OPTS].value = <<"c", " ", "d", " ", "e">>
    /\ ret.value[OPTS].value = <<"a", " ", "b", " ", "c", " ", "d", " ", "e">>

(***************************************************************************)
(* C5: when old holds its template variables under one dialect section and *)
(* new holds its own under another, the merged record holds both sets of   *)
(* variables under new's section name, new's value winning for a key set   *)
(* in both, and old's section name is gone; for every ordered pair of      *)
(* distinct dialect section names.                                         *)
(***************************************************************************)
Migrates(old, new, before, after) ==
    /\ before # after
    /\ DialectsOf(old) = {before} /\ KeysOf(old, before) # {}
    /\ DialectsOf(new) = {after} /\ KeysOf(new, after) # {}

C5_DialectMigration ==
    MergeDone =>
        \A before, after \in SECTIONS :
            Migrates(args.old, args.new, before, after) =>
                /\ <<after>> \in DOMAIN ret.value
                /\ PathsOf(ret.value, before) = {}
                /\ KeysOf(ret.value, after)
                     = KeysOf(args.old, before) \cup KeysOf(args.new, after)
                /\ \A k \in KeysOf(ret.value, after) :
                      ret.value[<<after, k>>] =
                          IF k \in KeysOf(args.new, after)
                          THEN args.new[<<after, k>>] ELSE args.old[<<before, k>>]

\* from 'template variables' to a legacy section, one key from each side
C5_Witness ==
    /\ MergeDone
    /\ Migrates(args.old, args.new, "template variables", "empy:suite.rc")
    /\ KeysOf(args.old, "template variables") = {"FOO", "BAR"}
    /\ KeysOf(args.new, "empy:suite.rc") = {"BAR"}
    /\ ret.value[<<"empy:suite.rc", "FOO">>].value = <<"1">>
    /\ ret.value[<<"empy:suite.rc", "BAR">>].value = <<"2">>

MigratedFrom(old, new) ==
    {before \in SECTIONS : \E after \in SECTIONS : Migrates(old, new, before, after)}

Recorded == pc = "done" /\ ret.exc = NoExc /\ ret.value

OptsTokens(file) ==
    IF file.exists /\ OPTS \in DOMAIN file.tree THEN split(file.tree[OPTS].value) ELSE <<>>

HostEntry(tree, section, host) ==
    /\ <<section, "ROSE_ORIG_HOST">> \in DOMAIN tree
    /\ tree[<<section, "ROSE_ORIG_HOST">>].value = <<host>>
    /\ tree[<<section, "ROSE_ORIG_HOST">>].comments
          = <<ROSE_ORIG_HOST_INSTALLED_OVERRIDE_STRING>>

(***************************************************************************)
(* C7: after a call of record_cylc_install_options without the clear flag, *)
(* made on the run directory as the call before left it, the opts of the   *)
(* record are the last-occurrence-wins de-duplication of the opts of the   *)
(* record found, then the tokens of ROSE_SUITE_OPT_CONF_KEYS, then the CLI *)
(* keys of this call; every token of the record found is still there.      *)
(***************************************************************************)
C7_RecordOptsAccumulate ==
    (Recorded /\ ~args.opts.clear_rose_install_opts) =>
        /\ OPTS \in DOMAIN record.tree
        /\ IsLastWinsDedup(OptsTokens(record),
                           OptsTokens(prev.record) \o EnvTokens(args.environ)
                           \o CliTokens(args.opts.opt_conf_keys))
        /\ WellFormed(record.tree[OPTS].value)
        /\ SeqToSet(OptsTokens(prev.record)) \subseteq SeqToSet(OptsTokens(record))

\* a reinstall with b in the environment and CLI key a on a record with
\* opts 'a': a stays last
C7_Witness ==
    /\ Recorded /\ ~args.opts.clear_rose_install_opts
    /\ OptsTokens(prev.record) = <<"a">>
    /\ EnvTokens(args.environ) = <<"b">>
    /\ CliTokens(args.opts.opt_conf_keys) = <<"a">>
    /\ OptsTokens(record) = <<"b", "a">>

(***************************************************************************)
(* C8: a call of record_cylc_install_options with the clear flag that      *)
(* finds a record writes the record it would write into a run directory    *)
(* with no record: no opts token, env entry or template variable of the    *)
(* record found is in it unless this call sets it.                         *)
(***************************************************************************)
FreshRecords ==
    {(IF args.fn = "post_install"
      THEN post_install(args.srcConf, Files(NoFile, prev.roseConf), args.opts,
                        args.host, args.environ, order)
      ELSE record_cylc_install_options(args.srcConf, Files(NoFile, prev.roseConf),
                                       args.opts, args.host, args.environ, order)).record :
        order \in Orders(SECTIONS)}

Sets(defines, keys) ==
    \E i \in DOMAIN defines :
        parse_cli_defines(defines[i]).ok /\ parse_cli_defines(defines[i]).keys = keys

C8_ClearDropsRecord ==
    (Recorded /\ args.opts.clear_rose_install_opts /\ prev.record.exists) =>
        /\ FreshRecords = {record}
        /\ SeqToSet(OptsTokens(record))
              \subseteq SeqToSet(EnvTokens(args.environ) \o CliTokens(args.opts.opt_conf_keys))
        /\ \A path \in DOMAIN record.tree :
              (Len(path) = 2 /\ path[2] # "ROSE_ORIG_HOST") =>
                  \/ Sets(args.opts.defines, path)
                  \/ Sets(section_defines(path[1], args.opts.rose_template_vars), path)

\* the record found had opts a and [env]FOO; neither is left
C8_Witness ==
    /\ Recorded /\ args.opts.clear_rose_install_opts /\ prev.record.exists
    /\ OptsTokens(prev.record) = <<"a">>
    /\ <<"env", "FOO">> \in DOMAIN prev.record.tree
    /\ OptsTokens(record) = <<"b">>
    /\ <<"env", "FOO">> \notin DOMAIN record.tree

(***************************************************************************)
(* C9: after process_config, in [env] and in the templating section, a     *)
(* ROSE_ORIG_HOST that had the install comment among its comments has the  *)
(* value it had; one without that comment, or one that was not there, has  *)
(* the host of this pass as its value.                                     *)
(***************************************************************************)
ProcessDone == pc = "done" /\ args.fn = "process_config" /\ ret.exc = NoExc

Pinned(node, section) ==
    /\ <<section, "ROSE_ORIG_HOST">> \in DOMAIN node
    /\ \E i \in DOMAIN node[<<section, "ROSE_ORIG_HOST">>].comments :
          node[<<section, "ROSE_ORIG_HOST">>].comments[i]
              = ROSE_ORIG_HOST_INSTALLED_OVERRIDE_STRING

TemplatingOf(node) == identify_templating_section(node).value

C9_PinnedHostKept ==
    ProcessDone =>
        \A section \in {"env", TemplatingOf(prev.config_tree.node)} :
            /\ <<section, "ROSE_ORIG_HOST">> \in DOMAIN config_tree.node
            /\ config_tree.node[<<section, "ROSE_ORIG_HOST">>].value
                  = IF Pinned(prev.config_tree.node, section)
                    THEN prev.config_tree.node[<<section, "ROSE_ORIG_HOST">>].value
                    ELSE <<args.host>>

\* a pass on h1 over a tree whose [env] has the host recorded on h0 and whose
\* [jinja2:suite.rc] has a host set by hand
C9_Witness ==
    /\ ProcessDone /\ args.host = "h1"
    /\ Pinned(prev.config_tree.node, "env")
    /\ <<"jinja2:suite.rc", "ROSE_ORIG_HOST">> \in DOMAIN prev.config_tree.node
    /\ ~Pinned(prev.config_tree.node, "jinja2:suite.rc")
    /\ config_tree.node[<<"env", "ROSE_ORIG_HOST">>].value = <<"h0">>
    /\ config_tree.node[<<"jinja2:suite.rc", "ROSE_ORIG_HOST">>].value = <<"h1">>

(***************************************************************************)
(* C10: after every call of record_cylc_install_options the record has, in *)
(* [env] and in its templating section, ROSE_ORIG_HOST with the host of    *)
(* this call as its value and the install comment as its comments.         *)
(***************************************************************************)
C10_RecordHost ==
    Recorded =>
        /\ record.exists
        /\ HostEntry(record.tree, "env", args.host)
        /\ DialectsOf(record.tree) # {}
        /\ identify_templating_section(record.tree).exc = NoExc
        /\ HostEntry(record.tree, identify_templating_section(record.tree).value,
                     args.host)

\* a reinstall on h2 of what was installed on h1, with another templating
\* section
C10_Witness ==
    /\ Recorded /\ args.host = "h2"
    /\ prev.record.exists
    /\ HostEntry(prev.record.tree, "env", "h1")
    /\ HostEntry(prev.record.tree, "template variables", "h1")
    /\ HostEntry(record.tree, "env", "h2")
    /\ HostEntry(record.tree, "jinja2:suite.rc", "h2")

(***************************************************************************)
(* C11: the install record, whenever there is one, has a top-level opts    *)
(* entry and its state is '!', also when the record was merged with the    *)
(* record of an earlier install.                                           *)
(***************************************************************************)
C11_RecordOptsIgnored ==
    record.exists =>
        /\ OPTS \in DOMAIN record.tree
        /\ ~record.tree[OPTS].sect
        /\ record.tree[OPTS].state = STATE_USER_IGNORED

\* a reinstall that added a token to the opts of the record it found
C11_Witness ==
    /\ Recorded /\ ~args.opts.clear_rose_install_opts
    /\ prev.record.exists
    /\ OptsTokens(prev.record) = <<"b">>
    /\ OptsTokens(record) = <<"b", "a">>
    /\ record.tree[OPTS].state = STATE_USER_IGNORED

(***************************************************************************)
(* C12: after process_config has succeeded, ROSE_VERSION in [env] and in   *)
(* the templating section has the version of the installed Rose as its     *)
(* value, whatever the tree had for it.                                    *)
(***************************************************************************)
VersionSet(node, section) ==
    /\ <<section, "ROSE_VERSION">> \in DOMAIN node
    /\ node[<<section, "ROSE_VERSION">>].value = <<ROSE_VERSION>>

C12_RoseVersionReplaced ==
    ProcessDone =>
        \A section \in {"env", TemplatingOf(prev.config_tree.node)} :
            VersionSet(config_tree.node, section)

\* a ROSE_VERSION that has the comment of cylc install among its comments is
\* as the tree had it
C12_Witness ==
    /\ ProcessDone
    /\ <<"env", "ROSE_VERSION">> \in DOMAIN prev.config_tree.node
    /\ ROSE_ORIG_HOST_INSTALLED_OVERRIDE_STRING
          \in SeqToSet(prev.config_tree.node[<<"env", "ROSE_VERSION">>].comments)
    /\ config_tree.node[<<"env", "ROSE_VERSION">>].value = <<"9">>
    /\ "ROSE_VERSION" \in DOMAIN ret.value.env
    /\ ret.value.env["ROSE_VERSION"] = <<"9">>

(***************************************************************************)
(* C13: after process_config has succeeded there is no CYLC_VERSION in     *)
(* [env], in the templating section, in the env it returns or in the       *)
(* template_variables it returns.                                          *)
(***************************************************************************)
C13_NoCylcVersion ==
    ProcessDone =>
        /\ \A section \in {"env", TemplatingOf(prev.config_tree.node)} :
              <<section, "CYLC_VERSION">> \notin DOMAIN config_tree.node
        /\ "CYLC_VERSION" \notin DOMAIN ret.value.env
        /\ "CYLC_VERSION" \notin DOMAIN ret.value.template_variables

\* the tree had CYLC_VERSION in [env] and in [jinja2:suite.rc]
C13_Witness ==
    /\ ProcessDone
    /\ <<"env", "CYLC_VERSION">> \in DOMAIN prev.config_tree.node
    /\ <<"jinja2:suite.rc", "CYLC_VERSION">> \in DOMAIN prev.config_tree.node
    /\ <<"env", "CYLC_VERSION">> \notin DOMAIN config_tree.node
    /\ <<"jinja2:suite.rc", "CYLC_VERSION">> \notin DOMAIN config_tree.node

(***************************************************************************)
(* C14: the env that process_config returns has the options of [env] whose *)
(* state is normal and no other; its template_variables has, next to       *)
(* ROSE_SUITE_VARIABLES, the options of the templating section whose state *)
(* is normal and no other.                                                 *)
(***************************************************************************)
NormalKeys(node, section) ==
    {q[2] : q \in {r \in DOMAIN node :
                      Len(r) = 2 /\ r[1] = section /\ node[r].state = STATE_NORMAL}}

C14_OnlyNormalEntries ==
    ProcessDone =>
        /\ DOMAIN ret.value.env = NormalKeys(config_tree.node, "env")
        /\ DOMAIN ret.value.template_variables \ {"ROSE_SUITE_VARIABLES"}
              = NormalKeys(config_tree.node, TemplatingOf(prev.config_tree.node))
        /\ \A key \in DOMAIN ret.value.env :
              ret.value.env[key] = config_tree.node[<<"env", key>>].value

\* [env] has an ignored ROSE_ORIG_HOST and a trigger-ignored A, the
\* templating section a trigger-ignored B
C14_Witness ==
    /\ ProcessDone
    /\ config_tree.node[<<"env", "ROSE_ORIG_HOST">>].state = STATE_USER_IGNORED
    /\ <<"env", "A">> \in DOMAIN config_tree.node
    /\ config_tree.node[<<"env", "A">>].state = STATE_SYST_IGNORED
    /\ <<"jinja2:suite.rc", "B">> \in DOMAIN config_tree.node
    /\ config_tree.node[<<"jinja2:suite.rc", "B">>].state = STATE_SYST_IGNORED
    /\ DOMAIN ret.value.env = {"ROSE_VERSION"}
    /\ "B" \notin DOMAIN ret.value.template_variables

(***************************************************************************)
(* C15: when process_config fails for a variable that environ does not     *)
(* have, the ConfigProcessError names an option of the tree it was given:  *)
(* the section, the key of that section whose value references the         *)
(* variable, and the variable.                                             *)
(***************************************************************************)
UnboundFailure ==
    /\ pc = "done" /\ args.fn = "process_config"
    /\ ret.exc = "ConfigProcessError"
    /\ ret.detail.exc # <<"Invalid template variable">>

References(value, name) ==
    \E i \in DOMAIN value : value[i] \in Symbols /\ SymbolName[value[i]] = name

C15_UnboundNamesOption ==
    UnboundFailure =>
        /\ ret.detail.keys \in DOMAIN prev.config_tree.node
        /\ prev.config_tree.node[ret.detail.keys].value = ret.detail.value
        /\ \E name \in {SymbolName[x] : x \in Symbols} :
              /\ ret.detail.exc = <<name>>
              /\ References(ret.detail.value, name)
              /\ name \notin DOMAIN prev.environ

\* B of the templating section references A, which nothing defines, and the
\* error names [env]B, an option the tree does not have
C15_Witness ==
    /\ UnboundFailure
    /\ <<"jinja2:suite.rc", "B">> \in DOMAIN prev.config_tree.node
    /\ prev.config_tree.node[<<"jinja2:suite.rc", "B">>].value = <<"$A">>
    /\ ret.detail.keys = <<"env", "B">>
    /\ <<"env", "B">> \notin DOMAIN prev.config_tree.node
    /\ ret.detail.exc = <<"A">>

C16_WitnessLegacy ==
    /\ ProcessDone
    /\ <<"empy:suite.rc">> \in DOMAIN prev.config_tree.node
    /\ ret.value.templating_detected = Some("empy")

(***************************************************************************)
(* C17: a second process_config on the tree and the environ that a         *)
(* successful first process_config has worked on, on the same host,        *)
(* succeeds and returns the env and the template_variables of the first.   *)
(***************************************************************************)
SecondPass ==
    /\ pc = "done" /\ args.fn = "process_config"
    /\ prev.last # <<>>
    /\ prev.last.host = args.host

C17_SecondPassSame ==
    SecondPass =>
        /\ ret.exc = NoExc
        /\ ret.value.env = prev.last.value.env
        /\ ret.value.template_variables = prev.last.value.template_variables

\* the first pass made $X of the escaped \$X of [env]A, the second pass made
\* of it the value of X
C17_Witness ==
    /\ SecondPass
    /\ ret.exc = NoExc
    /\ "A" \in DOMAIN prev.last.value.env
    /\ prev.last.value.env["A"] = <<"$X">>
    /\ ret.value.env["A"] = <<"2">>

\* ... or failed, where environ has no X
C17_WitnessUnbound ==
    /\ SecondPass
    /\ "A" \in DOMAIN prev.last.value.env
    /\ prev.last.value.env["A"] = <<"$X">>
    /\ ret.exc = "ConfigProcessError"
    /\ ret.detail.exc = <<"X">>

(***************************************************************************)
(* C18: rose_config_tree_loader loads the tree once when there are no      *)
(* template variables and, when it returns, twice when there are, never    *)
(* more; the second load has, after the defines of the first, a define     *)
(* "[S]var" for each template variable, S being the templating section of  *)
(* the tree the first load gave.  (When that tree has more than one        *)
(* templating section the call raises after the first load.)               *)
(***************************************************************************)
LoaderDone == pc = "done" /\ args.fn = "rose_config_tree_loader"

FirstPass == load_defines(args.srcConf.tree, args.defines)

LoadDone == pc = "done" /\ args.fn = "load_rose_config"

AnyOptionSet(opts) ==
    /\ opts # None
    /\ \/ opts.opt_conf_keys \notin {OptConfKeysList(<<>>), OptConfKeysStr(<<>>)}
       \/ Len(opts.defines) > 0
       \/ Len(opts.rose_template_vars) > 0

C19_NotARoseSuite ==
    (LoadDone /\ ~args.srcConf.exists) =>
        /\ ret.exc = "NotARoseSuiteException" <=> AnyOptionSet(args.opts)
        /\ ret.exc \in {"NotARoseSuiteException", NoExc}
        /\ ret.exc = NoExc => ret.value = EmptyNode

\* only template variables are given
C19_Witness ==
    /\ LoadDone /\ ~args.srcConf.exists
    /\ args.opts # None
    /\ args.opts.opt_conf_keys = OptConfKeysList(<<>>)
    /\ args.opts.defines = <<>>
    /\ args.opts.rose_template_vars # <<>>
    /\ ret.exc = "NotARoseSuiteException"

\* nothing is given, or no options object at all
C19_WitnessEmpty ==
    /\ LoadDone /\ ~args.srcConf.exists
    /\ args.opts = None
    /\ ret.exc = NoExc /\ ret.value = EmptyNode

(***************************************************************************)
(* C20: invalid_defines_check raises InvalidDefineError if and only if a   *)
(* define has no "="; the error then lists every define that has no "=",   *)
(* and no other.                                                           *)
(***************************************************************************)
CheckDone == pc = "done" /\ args.fn = "invalid_defines_check"

HasNoEquals(define) == "=" \notin SeqToSet(define)

C20_InvalidDefines ==
    CheckDone =>
        /\ ret.exc = "InvalidDefineError"
              <=> \E i \in DOMAIN args.defines : HasNoEquals(args.defines[i])
        /\ ret.exc = "InvalidDefineError"
              => ret.value = SelectSeq(args.defines, HasNoEquals)

\* a define that has an "=" and is marked as ignored is rejected
C20_Witness ==
    /\ CheckDone
    /\ args.defines = << <<"!", "FOO", "=", "1">> >>
    /\ ret.exc = "InvalidDefineError"
    /\ ret.value = << <<"!", "FOO", "=", "1">> >>

(***************************************************************************)
(* C21: get_platforms_from_task_jobs makes at most 10 attempts to read the *)
(* database and sleeps once after each that failed; it returns what the    *)
(* first attempt that does not raise sqlite3.OperationalError read, raises *)
(* the error of the tenth attempt only when all ten have failed, and ends. *)
(***************************************************************************)
DbDone == pc = "done" /\ args.fn = "get_platforms_from_task_jobs"

C21_Attempts ==
    /\ prev.try < 10
    /\ pc = "try" => prev.slept = prev.try
    /\ DbDone =>
          /\ prev.closed
          /\ ret.exc = NoExc =>
                /\ prev.slept = prev.try
                /\ ret.value = without_submit_num(read_rows(<< >>, args.rows))
          /\ ret.exc # NoExc =>
                /\ prev.try = 9 /\ prev.slept = 10
                /\ ret.value = Some(9)

C21_BoundedRetries == [](args.fn = "get_platforms_from_task_jobs" => C21_Attempts) /\ <>DbDone

\* the third attempt got the rows after two that failed, one of them after
\* a row had been read
C21_Witness ==
    /\ DbDone /\ ret.exc = NoExc
    /\ prev.try = 2 /\ prev.slept = 2
    /\ prev.db_exc = Some(1)
    /\ Len(args.rows) = 2
    /\ DOMAIN ret.value = {"foo"}
    /\ ret.value["foo"] = [name |-> "p2"]

\* all ten attempts failed
C21_WitnessExhausted ==
    /\ DbDone /\ ret.exc = "sqlite3.OperationalError"
    /\ prev.try = 9 /\ ret.value = Some(9)

(***************************************************************************)
(* C22: when process_config has ended, normally or with an error, the      *)
(* integer pattern of the Jinja2 lexer and Lexer.wrap are what they were   *)
(* before the call.                                                        *)
(***************************************************************************)
ProcessEnded == pc = "done" /\ args.fn = "process_config"

C22_LexerRestored == ProcessEnded => lexer = JINJA2_LEXER

\* the call raised for a template variable that is no literal, and the
\* lexer is left patched
C22_Witness ==
    /\ ProcessEnded
    /\ ret.exc = "ConfigProcessError"
    /\ ret.detail.exc = <<"Invalid template variable">>
    /\ lexer.integer_re = <<"zero-padded", "integer_re">>
    /\ lexer.wrap = <<"_inner", "Lexer.wrap">>

(***************************************************************************)
(* C23: an option whose value is a reference to A, in [env] after A or in  *)
(* the templating section, has after process_config the value that A of    *)
(* [env] has after it, whether the environ had an A or not; and the call   *)
(* does not fail for A being unbound.                                      *)
(***************************************************************************)
IsBefore(order, p, q) ==
    \E i, j \in DOMAIN order : i < j /\ order[i] = p /\ order[j] = q

RefersToA(tree, q) ==
    /\ q \in DOMAIN tree.node
    /\ Len(q) = 2
    /\ tree.node[q].value \in {<<"$A">>, <<"${A}">>}
    /\ <<"env", "A">> \in DOMAIN tree.node
    /\ q[1] = "env" => IsBefore(tree.order, <<"env", "A">>, q)

C23_EnvSeenByLaterKeys ==
    ProcessEnded =>
        \A q \in DOMAIN prev.config_tree.node :
            RefersToA(prev.config_tree, q) =>
                /\ ret.exc = NoExc =>
                      config_tree.node[q].value = config_tree.node[<<"env", "A">>].value
                /\ ret.exc = "ConfigProcessError" => ret.detail.exc # <<"A">>

\* A is $X, which environ has as 2; C of [env] and B of the templating
\* section refer to A, which environ did not have
C23_Witness ==
    /\ ProcessDone
    /\ "A" \notin DOMAIN prev.environ
    /\ RefersToA(prev.config_tree, <<"env", "C">>)
    /\ RefersToA(prev.config_tree, <<"jinja2:suite.rc", "B">>)
    /\ prev.config_tree.node[<<"env", "A">>].value = <<"$X">>
    /\ ret.value.env["C"] = <<"2">>
    /\ ret.value.template_variables["B"] = [type |-> "int", value |-> <<"2">>]

(***************************************************************************)
(* C24: the opts of the node that get_cli_opts_node returns is the merge   *)
(* of the opts that a define set on the node, the tokens of                *)
(* ROSE_SUITE_OPT_CONF_KEYS and the optional configuration keys of the     *)
(* command line, in that order.                                            *)
(***************************************************************************)
CliDone == pc = "done" /\ args.fn = "get_cli_opts_node" /\ ret.exc = NoExc

\* the node as the defines that are not marked as ignored make it
Declared ==
    set_defines(node_set(EmptyNode, <<"opts">>, Some(<<>>), None, None),
                SelectSeq(args.opts.defines,
                          LAMBDA d : parse_cli_defines(d).ok
                                     /\ parse_cli_defines(d).state = ""))

C24_OptsMerged ==
    CliDone =>
        ret.value[<<"opts">>].value
            = merge_opts(Declared, args.opts.opt_conf_keys, args.environ)

\* declared A B C, environment C D E, command line E F G: the declared
\* tokens are not in the result
C24_Witness ==
    /\ CliDone
    /\ Declared[<<"opts">>].value = <<"A", " ", "B", " ", "C">>
    /\ args.environ # << >>
    /\ args.opts.opt_conf_keys = OptConfKeysStr(<<"E", " ", "F", " ", "G">>)
    /\ ret.value[<<"opts">>].value = <<"C", " ", "D", " ", "E", " ", "F", " ", "G">>

(***************************************************************************)
(* C25: a define "[section]key=value" with an empty section and an ignore  *)
(* marker sets nothing on the node that get_cli_opts_node returns; every   *)
(* other define of that form sets the key of the section, with its value   *)
(* and state.                                                              *)
(***************************************************************************)
SectionDefines ==
    {match_section_key_value(args.opts.defines[i]) : i \in DOMAIN args.opts.defines}
        \ {[match |-> FALSE]}

Discarded(m) == strip(m.section) = <<>> /\ m.state # ""

C25_IgnoredTopLevelDiscarded ==
    CliDone =>
        \A m \in SectionDefines :
            IF Discarded(m)
            THEN text(strip(m.key)) # "opts"
                    => <<text(strip(m.key))>> \notin DOMAIN ret.value
            ELSE /\ <<text(strip(m.section)), text(strip(m.key))>> \in DOMAIN ret.value
                 /\ ret.value[<<text(strip(m.section)), text(strip(m.key))>>].value
                       = m.value
                 /\ ret.value[<<text(strip(m.section)), text(strip(m.key))>>].state
                       = m.state

\* "[]!FOO=x" has set FOO of the node, as ignored
C25_Witness ==
    /\ CliDone
    /\ args.opts.defines = << <<"[", "]", "!", "FOO", "=", "x">> >>
    /\ <<"FOO">> \in DOMAIN ret.value
    /\ ret.value[<<"FOO">>].value = <<"x">>
    /\ ret.value[<<"FOO">>].state = STATE_USER_IGNORED

(***************************************************************************)
(* C26: when process_config has failed for more than one templating        *)
(* section, or for a template variable that is no literal, the tree and    *)
(* the environ are what they were before the call.                         *)
(***************************************************************************)
FailedOnDialectOrLiteral ==
    /\ ProcessEnded
    /\ \/ ret.exc = "MultipleTemplatingEnginesError"
       \/ /\ ret.exc = "ConfigProcessError"
          /\ ret.detail.exc = <<"Invalid template variable">>

C26_NothingLeftBehind ==
    FailedOnDialectOrLiteral =>
        /\ config_tree = prev.config_tree
        /\ os_environ = prev.environ

\* the call failed for B = bad; the tree has the [env] that the call made
\* and the environ the ROSE_VERSION that it exported
C26_Witness ==
    /\ FailedOnDialectOrLiteral
    /\ ret.exc = "ConfigProcessError"
    /\ ret.detail.keys = <<"jinja2:suite.rc", "B">>
    /\ <<"env">> \notin DOMAIN prev.config_tree.node
    /\ <<"env", "ROSE_VERSION">> \in DOMAIN config_tree.node
    /\ prev.environ = << >>
    /\ "ROSE_VERSION" \in DOMAIN os_environ

\* the call failed for two templating sections and changed nothing
C26_WitnessDialect ==
    /\ FailedOnDialectOrLiteral
    /\ ret.exc = "MultipleTemplatingEnginesError"
    /\ config_tree = prev.config_tree /\ os_environ = prev.environ

(***************************************************************************)
(* C27: after a post_install that found a rose-suite.conf in the source    *)
(* directory and succeeded, the opts of the installed rose-suite.conf are  *)
(* the opts tokens of the source file unless its opts is ignored, then the *)
(* opts tokens of the install record, then "(cylc-install)", which is      *)
(* there once, whatever the installed file had before.                     *)
(***************************************************************************)
PostInstalled ==
    /\ pc = "done" /\ args.fn = "post_install"
    /\ ret.exc = NoExc /\ args.srcConf.exists

ActiveOptsTokens(file) ==
    IF OPTS \in DOMAIN file.tree
       /\ file.tree[OPTS].state \notin {STATE_USER_IGNORED, STATE_SYST_IGNORED}
    THEN split(file.tree[OPTS].value)
    ELSE <<>>

C27_InstalledOpts ==
    PostInstalled =>
        /\ OptsTokens(roseConf)
              = ActiveOptsTokens(args.srcConf) \o OptsTokens(record)
                    \o <<CYLC_INSTALL>>
        /\ Cardinality(Positions(OptsTokens(roseConf), CYLC_INSTALL)) = 1
        /\ roseConf.tree[OPTS].state = STATE_NORMAL

\* a reinstall over an installed file that had "(cylc-install)" already
C27_Witness ==
    /\ PostInstalled
    /\ prev.roseConf.exists
    /\ CYLC_INSTALL \in SeqToSet(OptsTokens(prev.roseConf))
    /\ prev.record.exists
    /\ OptsTokens(prev.record) = << <<"a">> >>
    /\ OptsTokens(record) = << <<"b">>, <<"a">> >>
    /\ OptsTokens(roseConf) = << <<"z">>, <<"b">>, <<"a">>, CYLC_INSTALL >>

(***************************************************************************)
(* C28: after get_cli_opts_node and after rose_config_tree_loader the      *)
(* defines and the rose_template_vars of the options object are the lists  *)
(* that the caller passed.                                                 *)
(***************************************************************************)
OptsGiven ==
    IF args.fn = "get_cli_opts_node"
    THEN [defines |-> args.opts.defines,
          rose_template_vars |-> args.opts.rose_template_vars]
    ELSE [defines |-> args.defines, rose_template_vars |-> args.rose_template_vars]

C28_OptsUnchanged ==
    (pc = "done" /\ args.fn \in {"get_cli_opts_node", "rose_config_tree_loader"}) =>
        /\ ret.opts.defines = OptsGiven.defines
        /\ ret.opts.rose_template_vars = OptsGiven.rose_template_vars

\* get_cli_opts_node has left its defines of ROSE_ORIG_HOST in both lists,
\* and the loader the define of the template variable in the defines
C28_Witness ==
    /\ pc = "done" /\ args.fn = "get_cli_opts_node" /\ ret.exc = NoExc
    /\ args.srcConf.exists
    /\ args.opts.defines = << <<"[", "env", "]", "FOO", "=", "1">> >>
    /\ args.opts.rose_template_vars = << <<"BAR", "=", "2">> >>
    /\ ret.opts.defines =
          << <<"[", "env", "]", "FOO", "=", "1">>,
             <<"[", "env", "]", "ROSE_ORIG_HOST", "=", "h1">>,
             <<"[", "jinja2:suite.rc", "]", "BAR", "=", "2">>,
             <<"[", "jinja2:suite.rc", "]", "ROSE_ORIG_HOST", "=", "h1">> >>
    /\ ret.opts.rose_template_vars =
          << <<"BAR", "=", "2">>, <<"ROSE_ORIG_HOST", "=", "h1">> >>

\* rose_config_tree_loader alone has appended to the defines it was given
C28_WitnessLoader ==
    /\ pc = "done" /\ args.fn = "rose_config_tree_loader" /\ ret.exc = NoExc
    /\ args.defines # <<>> /\ args.rose_template_vars # <<>>
    /\ Len(ret.opts.defines) = Len(args.defines) + Len(args.rose_template_vars)

(***************************************************************************)
(* C29: after a process_config that succeeded, every key that environ has  *)
(* gained, or has another value for, is a key of the env mapping that the  *)
(* call returned, so no entry of [env] that is ignored has been exported.  *)
(***************************************************************************)
Exported ==
    {key \in DOMAIN os_environ :
        \/ key \notin DOMAIN prev.environ
        \/ os_environ[key] # prev.environ[key]}

C29_OnlyNormalExported ==
    ProcessDone => Exported \subseteq DOMAIN ret.value.env

\* the trigger-ignored A = 1 of [env] is in environ and not in the mapping
C29_Witness ==
    /\ ProcessDone
    /\ <<"env", "A">> \in DOMAIN config_tree.node
    /\ config_tree.node[<<"env", "A">>].state = STATE_SYST_IGNORED
    /\ "A" \notin DOMAIN prev.environ
    /\ "A" \in DOMAIN os_environ /\ os_environ["A"] = <<"1">>
    /\ "A" \notin DOMAIN ret.value.env

\* with every entry of [env] in the normal state what was exported is the
\* mapping
C29_WitnessNormal ==
    /\ ProcessDone
    /\ <<"env", "A">> \in DOMAIN config_tree.node
    /\ NormalKeys(config_tree.node, "env") = {"ROSE_ORIG_HOST", "ROSE_VERSION", "A"}
    /\ Exported = DOMAIN ret.value.env

(***************************************************************************)
(* C30: after a record_cylc_install_options that succeeded, whatever the   *)
(* calls before it left in the run directory and whichever dialect they    *)
(* used, the install record has at most one of the three dialect sections: *)
(* identify_templating_section does not raise for the record as loaded.    *)
(***************************************************************************)
Dialects(file) == SECTIONS \cap TopKeys(file.tree)

C30_RecordOneDialect ==
    (Recorded /\ record.exists) =>
        /\ Cardinality(Dialects(record)) <= 1
        /\ identify_templating_section(load(record)).exc = NoExc

\* a reinstall from a source with [jinja2:suite.rc] on a record whose
\* variables were under [template variables]: BAR has moved with them
C30_Witness ==
    /\ Recorded /\ ~args.opts.clear_rose_install_opts
    /\ prev.record.exists
    /\ Dialects(prev.record) = {"template variables"}
    /\ <<"template variables", "BAR">> \in DOMAIN prev.record.tree
    /\ Dialects(args.srcConf) = {"jinja2:suite.rc"}
    /\ args.opts.rose_template_vars = <<>>
    /\ Dialects(record) = {"jinja2:suite.rc"}
    /\ <<"jinja2:suite.rc", "BAR">> \in DOMAIN record.tree

\* the other way: from [jinja2:suite.rc] to [template variables]
C30_WitnessBack ==
    /\ Recorded /\ ~args.opts.clear_rose_install_opts
    /\ prev.record.exists
    /\ Dialects(prev.record) = {"jinja2:suite.rc"}
    /\ Dialects(record) = {"template variables"}

====
